---- MODULE Spec2Model ----
(***************************************************************************)
(* Model of the spark-joy digest scanner of mtfront/shopping-db-sync.      *)
(*                                                                         *)
(* Strings are sequences of characters.  A character is a one-element     *)
(* string; the code points outside ASCII are written by their names:       *)
(*   "U+7269" the section marker ideograph, "U+5473" another ideograph,    *)
(*   "U+1F929" "U+1F44D" "U+1F937" "U+1F44E" "U+1F92E" the rating glyphs,  *)
(*   "U+0060" the backtick.                                                *)
(*                                                                         *)
(* Three copies of the scanner exist in the sources:                       *)
(*   "legacy"  parseWuSection of src/unnamed/part_000 (lines 87-215)       *)
(*   "current" parseWuSection of src/parse-spark-joy.js (lines 130-267),   *)
(*             and parseStuffSection of src/unnamed/part_000 (482-619),    *)
(*             which is the same code under another name.                  *)
(***************************************************************************)
EXTENDS Integers, Sequences, FiniteSets, TLC

VARIABLES
    variant,        \* which copy of the scanner runs
    doc,            \* lines = content.split('\n')
    i,              \* loop index (1-based: the next line to read)
    inWuSection,    \* let inWuSection
    currentEntry,   \* let currentEntry: a reference into heap, 0 = null
    entryLines,     \* let entryLines
    entries,        \* const entries: a sequence of references into heap
    heap,           \* the entry objects allocated so far, by reference
    pc,             \* "loop", "save" (after the loop), "done" (returned)
    other,          \* the locals of a second scanner call on the same heap
    fnArg,          \* argument of a pure string function under test
    fnRet,          \* its result
    fpc,            \* "idle", "ready", "returned", "cleaned", "recleaned"
    \* main
    mainVariant,    \* which copy of main runs
    repoSet,        \* REPO_NAME != null
    notionSet,      \* NOTION_TOKEN && NOTION_DATABASE_ID
    args,           \* process.argv.slice(2)
    argIdx,         \* position of "for (const arg of args)"
    urls,           \* let urls
    urlIdx,         \* position of "for (const url of urls)"
    allEntries,     \* const allEntries
    seenTitles,     \* const seenTitles
    uniqueEntries,  \* const uniqueEntries
    dedupIdx,       \* position of "for (const entry of allEntries)"
    mpc,            \* where main stands
    log,            \* what console.log / console.error have printed
    fetches,        \* the requests fetchUrl has sent, in order
    \* addToNotion
    store,          \* the pages of the Notion database, by page id
    existingPages,  \* const existingPages: title -> page id
    startCursor,    \* let startCursor: pages read so far
    nEntries,       \* the parameter entries
    nIdx,           \* position of "for (const entry of entries)"
    npc,            \* where addToNotion stands
    calls           \* how many calls of addToNotion have been entered

scanVars == <<variant, doc, i, inWuSection, currentEntry, entryLines, entries,
              heap, pc, other>>

fnVars == <<fnArg, fnRet, fpc>>

mainVars == <<mainVariant, repoSet, notionSet, args, argIdx, urls, urlIdx,
              allEntries, seenTitles, uniqueEntries, dedupIdx, mpc, log,
              fetches>>

notionVars == <<store, existingPages, startCursor, nEntries, nIdx, npc, calls>>

vars == <<scanVars, fnVars, mainVars, notionVars>>

\* main is not running
MainIdle ==
    /\ mainVariant = "repo"
    /\ repoSet = TRUE
    /\ notionSet = TRUE
    /\ args = <<>>
    /\ argIdx = 1
    /\ urls = <<>>
    /\ urlIdx = 1
    /\ allEntries = <<>>
    /\ seenTitles = {}
    /\ uniqueEntries = <<>>
    /\ dedupIdx = 1
    /\ mpc = "idle"
    /\ log = <<>>
    /\ fetches = <<>>

\* addToNotion is not running
NotionIdle ==
    /\ store = <<>>
    /\ existingPages = <<>>
    /\ startCursor = 0
    /\ nEntries = <<>>
    /\ nIdx = 1
    /\ npc = "idle"
    /\ calls = 0

\* no second scanner call is running
NoOther ==
    [doc |-> <<>>, i |-> 1, inWuSection |-> FALSE, currentEntry |-> 0,
     entryLines |-> <<>>, entries |-> <<>>, pc |-> "idle"]

\* the scanner state machine is not running
ScanIdle ==
    /\ variant = "current"
    /\ doc = <<>>
    /\ i = 1
    /\ inWuSection = FALSE
    /\ currentEntry = 0
    /\ entryLines = <<>>
    /\ entries = <<>>
    /\ heap = <<>>
    /\ pc = "idle"
    /\ other = NoOther

\* no pure function is under test
FnIdle ==
    /\ fnArg = <<>>
    /\ fnRet = 0
    /\ fpc = "idle"

-----------------------------------------------------------------------------
(* Bounds *)

MaxLines == 4

MaxTitleLen == 3

MaxEntries == 4

MaxFmLines == 4

MaxArgs == 2

MaxUpserts == 2

MaxCalls == 2

-----------------------------------------------------------------------------
(* Characters and string primitives *)

\* the backtick, which the string syntax of TLA+ does not admit
BT == "U+0060"
WU == "U+7269"
WEI == "U+5473"
G5 == "U+1F929"
G4 == "U+1F44D"
G3 == "U+1F937"
G2 == "U+1F44E"
G1 == "U+1F92E"

\* the value of a missing property / null
Null == <<"null">>

\* no rating property on the object
NoRating == 0

NL == "\n"

IsWs(c) == c \in {" ", "\t", NL}

MinOf(S) == CHOOSE m \in S : \A n \in S : m <= n

MaxOf(S) == CHOOSE m \in S : \A n \in S : m >= n

\* String.prototype.trim
Trim(s) ==
    LET keep == {j \in 1..Len(s) : ~IsWs(s[j])}
    IN  IF keep = {} THEN <<>> ELSE SubSeq(s, MinOf(keep), MaxOf(keep))

\* String.prototype.startsWith
StartsWith(s, p) == Len(s) >= Len(p) /\ SubSeq(s, 1, Len(p)) = p

\* String.prototype.includes, for a one-character needle
Includes(s, c) == \E j \in 1..Len(s) : s[j] = c

\* first index >= from holding c, 0 when there is none
Find(s, c, from) ==
    LET hits == {j \in from..Len(s) : s[j] = c}
    IN  IF hits = {} THEN 0 ELSE MinOf(hits)

\* first index >= from that is not whitespace (Len(s)+1 when there is none):
\* where a greedy \s* started at from stops
SkipWs(s, from) ==
    LET stops == {j \in from..Len(s) : ~IsWs(s[j])}
    IN  IF stops = {} THEN Len(s) + 1 ELSE MinOf(stops)

RECURSIVE Join(_)
\* Array.prototype.join(' ')
Join(ls) ==
    IF ls = <<>> THEN <<>>
    ELSE IF Len(ls) = 1 THEN ls[1]
    ELSE ls[1] \o <<" ">> \o Join(Tail(ls))

\* entryLines.join(' ').trim()
JoinTrim(ls) == Trim(Join(ls))

-----------------------------------------------------------------------------
(* Rating glyphs *)

ratingMap == << [emoji |-> G5, rating |-> 5],
                [emoji |-> G4, rating |-> 4],
                [emoji |-> G3, rating |-> 3],
                [emoji |-> G2, rating |-> 2],
                [emoji |-> G1, rating |-> 1] >>

ratingEmojis == <<G5, G4, G3, G2, G1>>

DefaultRating == 3

RECURSIVE RatingFrom(_, _)
RatingFrom(title, k) ==
    IF k > Len(ratingMap) THEN DefaultRating
    ELSE IF Includes(title, ratingMap[k].emoji) THEN ratingMap[k].rating
    ELSE RatingFrom(title, k + 1)

\* an extractor without the default: no glyph, no rating
extractRating_NoDefault(title) ==
    IF \E k \in 1..Len(ratingMap) : Includes(title, ratingMap[k].emoji)
    THEN RatingFrom(title, 1)
    ELSE NoRating

\* an extractor that takes the glyph standing first in the title
extractRating_FirstInTitle(title) ==
    LET hits == {j \in 1..Len(title) :
                    \E k \in 1..Len(ratingMap) : title[j] = ratingMap[k].emoji}
    IN  IF hits = {} THEN DefaultRating
        ELSE ratingMap[CHOOSE k \in 1..Len(ratingMap) :
                           ratingMap[k].emoji = title[MinOf(hits)]].rating

\* for (const [emoji, rating] of Object.entries(ratingMap)) ...; return 3
extractRating(title) == RatingFrom(title, 1)

\* a replace without the g flag: only the first occurrence goes
RemoveAll_FirstOnly(s, g) ==
    IF Find(s, g, 1) = 0 THEN s
    ELSE SubSeq(s, 1, Find(s, g, 1) - 1) \o SubSeq(s, Find(s, g, 1) + 1, Len(s))

\* cleaned.replace(new RegExp(emoji, 'g'), '')
RemoveAll(s, g) == SelectSeq(s, LAMBDA c : c # g)

RECURSIVE CleanFrom(_, _)
CleanFrom(s, k) ==
    IF k > Len(ratingEmojis) THEN s
    ELSE CleanFrom(RemoveAll(s, ratingEmojis[k]), k + 1)

cleanTitle(title) == Trim(CleanFrom(title, 1))

-----------------------------------------------------------------------------
(* Line classifier: the two regular expressions *)

NoMatch == [ok |-> FALSE, g1 |-> Null, g2 |-> Null, g3 |-> Null, g4 |-> Null]

\* \[([^\]]+)\]\(([^)]+)\) anchored at index p: the indices of "]" and ")",
\* <<0, 0>> when it does not match there
LinkAt(s, p) ==
    IF p > Len(s) \/ s[p] # "[" THEN <<0, 0>>
    ELSE LET q == Find(s, "]", p + 1)
         IN  IF q = 0 \/ q = p + 1 \/ q + 1 > Len(s) \/ s[q + 1] # "("
             THEN <<0, 0>>
             ELSE LET r == Find(s, ")", q + 2)
                  IN  IF r = 0 \/ r = q + 2 THEN <<0, 0>> ELSE <<q, r>>

\* trimmedLine.match(/^###\s+\[([^\]]+)\]\(([^)]+)\)/)
HeadingMatch(s) ==
    IF ~StartsWith(s, <<"#", "#", "#">>) THEN NoMatch
    ELSE LET p == SkipWs(s, 4)
             qr == LinkAt(s, p)
         IN  IF p = 4 \/ qr = <<0, 0>> THEN NoMatch
             ELSE [ok |-> TRUE,
                   g1 |-> SubSeq(s, p + 1, qr[1] - 1),
                   g2 |-> SubSeq(s, qr[1] + 2, qr[2] - 1),
                   g3 |-> Null, g4 |-> Null]

\* trimmedLine.match(/^-\s*`([^`]+)`(?:\s+\[([^\]]+)\]\(([^)]+)\))?\s*(.*)$/)
\* (the characters of the model hold no line terminator, so .* runs to the end)
BulletMatch(s) ==
    IF Len(s) = 0 \/ s[1] # "-" THEN NoMatch
    ELSE LET p == SkipWs(s, 2)
         IN  IF p > Len(s) \/ s[p] # BT THEN NoMatch
             ELSE LET q == Find(s, BT, p + 1)
                  IN  IF q = 0 \/ q = p + 1 THEN NoMatch
                      ELSE LET w == SkipWs(s, q + 1)
                               qr == IF w = q + 1 THEN <<0, 0>> ELSE LinkAt(s, w)
                               rest == IF qr = <<0, 0>> THEN q + 1 ELSE qr[2] + 1
                               g == SkipWs(s, rest)
                           IN  [ok |-> TRUE,
                                g1 |-> SubSeq(s, p + 1, q - 1),
                                g2 |-> IF qr = <<0, 0>> THEN Null
                                       ELSE SubSeq(s, w + 1, qr[1] - 1),
                                g3 |-> IF qr = <<0, 0>> THEN Null
                                       ELSE SubSeq(s, qr[1] + 2, qr[2] - 1),
                                g4 |-> SubSeq(s, g, Len(s))]

SectionMarker == <<"#", "#", " ", WU>>

H2 == <<"#", "#", " ">>

\* trimmedLine === '## U+7269' || trimmedLine.startsWith('## U+7269')
IsMarker(t) == t = SectionMarker \/ StartsWith(t, SectionMarker)

\* trimmedLine.startsWith('## ') && !trimmedLine.startsWith('## U+7269')
IsOtherH2(t) == StartsWith(t, H2) /\ ~StartsWith(t, SectionMarker)

\* trimmedLine.startsWith('###') || (trimmedLine.startsWith('-') && trimmedLine.includes('`'))
LooksLikeOpener(t) ==
    StartsWith(t, <<"#", "#", "#">>) \/ (StartsWith(t, <<"-">>) /\ Includes(t, BT))

\* a skip list without the image marker
IsExcluded_NoImage(t) ==
    \/ StartsWith(t, <<"{", "{">>)
    \/ t = <<"<", "-", "-", "-", ">">>
    \/ StartsWith(t, <<"<", "-", "-", "-">>)

\* the lines the continuation branch skips
IsExcluded(t) ==
    \/ StartsWith(t, <<"{", "{">>)
    \/ StartsWith(t, <<"!", "[">>)
    \/ t = <<"<", "-", "-", "-", ">">>
    \/ StartsWith(t, <<"<", "-", "-", "-">>)

-----------------------------------------------------------------------------
(* Section scanner: parseWuSection / parseStuffSection *)

Variants == {"legacy", "current"}

\* a scanner that starts inside the section
InitScan_InSection ==
    [inWuSection |-> TRUE, currentEntry |-> 0, entryLines |-> <<>>,
     entries |-> <<>>, heap |-> <<>>, brk |-> FALSE]

\* the locals of one scanner call, as a record; brk: the loop was left by break
InitScan ==
    [inWuSection |-> FALSE, currentEntry |-> 0, entryLines |-> <<>>,
     entries |-> <<>>, heap |-> <<>>, brk |-> FALSE]

\* a save that pushes the entry and forgets to flush the buffer into it
SaveEntry_NoFlush(st) ==
    [st EXCEPT !.entries = Append(st.entries, st.currentEntry)]

\* currentEntry.description = entryLines.join(' ').trim(); entries.push(currentEntry)
SaveEntry(st) ==
    [st EXCEPT !.heap[st.currentEntry].description = JoinTrim(st.entryLines),
               !.entries = Append(st.entries, st.currentEntry)]

\* an opener that drops the entry that was open
SavePrevious_Skip(st) == st

\* "Save previous entry if exists"
SavePrevious(st) == IF st.currentEntry # 0 THEN SaveEntry(st) ELSE st

\* a heading opener that rates the title after cleaning it
HeadingEntry_RateCleaned(v, m) ==
    IF v = "legacy"
    THEN [title |-> Trim(m.g1), link |-> Trim(m.g2), linkText |-> Trim(m.g1),
          description |-> <<>>, rating |-> NoRating]
    ELSE [title |-> cleanTitle(Trim(m.g1)), link |-> Trim(m.g2), linkText |-> Null,
          description |-> <<>>, rating |-> extractRating(cleanTitle(Trim(m.g1)))]

\* the object literal of a heading-form opener
\* (legacy: part_000 lines 134-139; current: parse-spark-joy.js lines 178-185)
HeadingEntry(v, m) ==
    IF v = "legacy"
    THEN [title |-> Trim(m.g1), link |-> Trim(m.g2), linkText |-> Trim(m.g1),
          description |-> <<>>, rating |-> NoRating]
    ELSE [title |-> cleanTitle(Trim(m.g1)), link |-> Trim(m.g2), linkText |-> Null,
          description |-> <<>>, rating |-> extractRating(Trim(m.g1))]

\* a bullet opener that takes the link from the wrong capture group
BulletEntry_WrongGroup(v, m) ==
    IF v = "legacy"
    THEN [title |-> Trim(m.g1),
          link |-> IF m.g2 # Null THEN Trim(m.g2) ELSE Null,
          linkText |-> IF m.g2 # Null THEN Trim(m.g2) ELSE Null,
          description |-> <<>>, rating |-> NoRating]
    ELSE [title |-> cleanTitle(Trim(m.g1)),
          link |-> IF m.g2 # Null THEN Trim(m.g2) ELSE Null,
          linkText |-> Null,
          description |-> <<>>, rating |-> extractRating(Trim(m.g1))]

\* the object literal of a bullet-form opener
\* (legacy: part_000 lines 149-154; current: parse-spark-joy.js lines 195-202)
BulletEntry(v, m) ==
    IF v = "legacy"
    THEN [title |-> Trim(m.g1),
          link |-> IF m.g3 # Null THEN Trim(m.g3) ELSE Null,
          linkText |-> IF m.g2 # Null THEN Trim(m.g2) ELSE Null,
          description |-> <<>>, rating |-> NoRating]
    ELSE [title |-> cleanTitle(Trim(m.g1)),
          link |-> IF m.g3 # Null THEN Trim(m.g3) ELSE Null,
          linkText |-> Null,
          description |-> <<>>, rating |-> extractRating(Trim(m.g1))]

\* "Add description if present on same line"
BulletLines(m) == IF Trim(m.g4) # <<>> THEN <<Trim(m.g4)>> ELSE <<>>

\* currentEntry = {...}; entryLines = [...]
OpenEntry(st, e, ls) ==
    [st EXCEPT !.heap = Append(st.heap, e),
               !.currentEntry = Len(st.heap) + 1,
               !.entryLines = ls]

\* a section end that saves the open entry and goes on scanning
LeaveSection_NoBreak(v, st) ==
    [SavePrevious(st) EXCEPT !.currentEntry = 0]

\* the branch taken when the section is left; the legacy copy (part_000 lines
\* 106-113) breaks without "currentEntry = null"
LeaveSection(v, st) ==
    LET saved == SavePrevious(st)
    IN  [saved EXCEPT !.brk = TRUE,
                      !.currentEntry = IF v = "legacy" THEN @ ELSE 0]

\* the continuation branch: else if (currentEntry) { ... }
Continuation(v, st, t) ==
    IF t = <<>> THEN st
    ELSE IF LooksLikeOpener(t)
    THEN LET saved == SaveEntry(st)
             newHeadingMatch == HeadingMatch(t)
             newBulletMatch == BulletMatch(t)
         IN  IF newHeadingMatch.ok
             THEN OpenEntry(saved, HeadingEntry(v, newHeadingMatch), <<>>)
             ELSE IF newBulletMatch.ok
             THEN OpenEntry(saved, BulletEntry(v, newBulletMatch),
                            BulletLines(newBulletMatch))
             ELSE [saved EXCEPT !.entryLines = Append(@, t)]
    ELSE IF ~IsExcluded(t)
    THEN [st EXCEPT !.entryLines = Append(@, t)]
    ELSE st

\* an iteration that breaks at another second-level heading wherever it stands
ScanLine_BreakOutside(v, st, line) ==
    LET trimmedLine == Trim(line)
        headingMatch == HeadingMatch(trimmedLine)
        bulletMatch == BulletMatch(trimmedLine)
    IN  IF IsMarker(trimmedLine) THEN [st EXCEPT !.inWuSection = TRUE]
        ELSE IF IsOtherH2(trimmedLine) THEN LeaveSection(v, st)
        ELSE IF ~st.inWuSection THEN st
        ELSE IF trimmedLine = <<>> /\ st.currentEntry = 0 THEN st
        ELSE IF headingMatch.ok
        THEN OpenEntry(SavePrevious(st), HeadingEntry(v, headingMatch), <<>>)
        ELSE IF bulletMatch.ok
        THEN OpenEntry(SavePrevious(st), BulletEntry(v, bulletMatch),
                       BulletLines(bulletMatch))
        ELSE IF st.currentEntry # 0 THEN Continuation(v, st, trimmedLine)
        ELSE st

\* an iteration in which a marker line closes the open entry
ScanLine_MarkerCloses(v, st, line) ==
    LET trimmedLine == Trim(line)
        headingMatch == HeadingMatch(trimmedLine)
        bulletMatch == BulletMatch(trimmedLine)
    IN  IF IsMarker(trimmedLine)
        THEN [SavePrevious(st) EXCEPT !.inWuSection = TRUE, !.currentEntry = 0]
        ELSE IF st.inWuSection /\ IsOtherH2(trimmedLine) THEN LeaveSection(v, st)
        ELSE IF ~st.inWuSection THEN st
        ELSE IF trimmedLine = <<>> /\ st.currentEntry = 0 THEN st
        ELSE IF headingMatch.ok
        THEN OpenEntry(SavePrevious(st), HeadingEntry(v, headingMatch), <<>>)
        ELSE IF bulletMatch.ok
        THEN OpenEntry(SavePrevious(st), BulletEntry(v, bulletMatch),
                       BulletLines(bulletMatch))
        ELSE IF st.currentEntry # 0 THEN Continuation(v, st, trimmedLine)
        ELSE st

\* an iteration that buffers the heading opener line itself
ScanLine_HeadingBuffered(v, st, line) ==
    LET trimmedLine == Trim(line)
        headingMatch == HeadingMatch(trimmedLine)
        bulletMatch == BulletMatch(trimmedLine)
    IN  IF IsMarker(trimmedLine) THEN [st EXCEPT !.inWuSection = TRUE]
        ELSE IF st.inWuSection /\ IsOtherH2(trimmedLine) THEN LeaveSection(v, st)
        ELSE IF ~st.inWuSection THEN st
        ELSE IF trimmedLine = <<>> /\ st.currentEntry = 0 THEN st
        ELSE IF headingMatch.ok
        THEN OpenEntry(SavePrevious(st), HeadingEntry(v, headingMatch),
                       <<trimmedLine>>)
        ELSE IF bulletMatch.ok
        THEN OpenEntry(SavePrevious(st), BulletEntry(v, bulletMatch),
                       BulletLines(bulletMatch))
        ELSE IF st.currentEntry # 0 THEN Continuation(v, st, trimmedLine)
        ELSE st

\* one iteration of the for loop on one line
ScanLine(v, st, line) ==
    LET trimmedLine == Trim(line)
        headingMatch == HeadingMatch(trimmedLine)
        bulletMatch == BulletMatch(trimmedLine)
    IN  IF IsMarker(trimmedLine) THEN [st EXCEPT !.inWuSection = TRUE]
        ELSE IF st.inWuSection /\ IsOtherH2(trimmedLine) THEN LeaveSection(v, st)
        ELSE IF ~st.inWuSection THEN st
        ELSE IF trimmedLine = <<>> /\ st.currentEntry = 0 THEN st
        ELSE IF headingMatch.ok
        THEN OpenEntry(SavePrevious(st), HeadingEntry(v, headingMatch), <<>>)
        ELSE IF bulletMatch.ok
        THEN OpenEntry(SavePrevious(st), BulletEntry(v, bulletMatch),
                       BulletLines(bulletMatch))
        ELSE IF st.currentEntry # 0 THEN Continuation(v, st, trimmedLine)
        ELSE st

\* "Save last entry", after the loop
SaveLast(st) == SavePrevious(st)

RECURSIVE ScanPrefix(_, _, _)
\* the locals after the first k iterations (fewer when the loop broke earlier)
ScanPrefix(v, d, k) ==
    IF k = 0 THEN InitScan
    ELSE LET before == ScanPrefix(v, d, k - 1)
         IN  IF before.brk THEN before ELSE ScanLine(v, before, d[k])

\* what a call returns for the lines d: the objects the references point at
parseWuSection(v, d) ==
    LET st == SaveLast(ScanPrefix(v, d, Len(d)))
    IN  [k \in 1..Len(st.entries) |-> st.heap[st.entries[k]]]

-----------------------------------------------------------------------------
(* Input documents *)

LMarker == SectionMarker

LOther == <<"#", "#", " ", WEI>>

\* ### [A<U+1F929>](u) t
LHeading == <<"#", "#", "#", " ", "[", "A", G5, "]", "(", "u", ")", " ", "t">>

\* ### [<U+1F44D>](u)
LGlyphOnly == <<"#", "#", "#", " ", "[", G4, "]", "(", "u", ")">>

\* - `B` [L](v) d, indented
LBullet == <<" ", "-", " ", BT, "B", BT, " ", "[", "L", "]", "(", "v", ")", " ", "d">>

\* -`C`
LPlain == <<"-", BT, "C", BT>>

\* indented text
LText == <<" ", "m", " ">>

\* ###x : starts like a heading opener, is none
LBadHeading == <<"#", "#", "#", "x">>

\* -x` : starts like a bullet opener, is none
LBadBullet == <<"-", "x", BT>>

LEmpty == <<>>

\* {{
LShortcode == <<"{", "{">>

\* ![
LImage == <<"!", "[">>

\* <--->
LSeparator == <<"<", "-", "-", "-", ">">>

\* <---x : text that starts like the separator
LArrow == <<"<", "-", "-", "-", "x">>

Lines == {LMarker, LOther, LHeading, LGlyphOnly, LBullet, LPlain, LText,
          LBadHeading, LBadBullet, LEmpty, LShortcode}

Docs == UNION {[1..n -> Lines] : n \in 1..MaxLines}

TitleChars == {G5, G4, G3, G2, G1, "a", " "}

Titles == UNION {[1..n -> TitleChars] : n \in 0..MaxTitleLen}

-----------------------------------------------------------------------------
(* The scanner as a state machine *)

Locals ==
    [inWuSection |-> inWuSection, currentEntry |-> currentEntry,
     entryLines |-> entryLines, entries |-> entries, heap |-> heap,
     brk |-> FALSE]

SetLocals(st) ==
    /\ inWuSection' = st.inWuSection
    /\ currentEntry' = st.currentEntry
    /\ entryLines' = st.entryLines
    /\ entries' = st.entries
    /\ heap' = st.heap

Init ==
    /\ variant \in Variants
    /\ doc \in Docs
    /\ i = 1
    /\ inWuSection = InitScan.inWuSection
    /\ currentEntry = InitScan.currentEntry
    /\ entryLines = InitScan.entryLines
    /\ entries = InitScan.entries
    /\ heap = InitScan.heap
    /\ pc = "loop"
    /\ other = NoOther
    /\ fnArg = <<>>
    /\ fnRet = 0
    /\ fpc = "idle"
    /\ MainIdle
    /\ NotionIdle

\* for (let i = 0; i < lines.length; i++) { ... }: one iteration
Scan ==
    /\ pc = "loop"
    /\ i <= Len(doc)
    /\ LET st == ScanLine(variant, Locals, doc[i])
       IN  /\ SetLocals(st)
           /\ i' = IF st.brk THEN i ELSE i + 1
           /\ pc' = IF st.brk \/ i + 1 > Len(doc) THEN "save" ELSE "loop"
    /\ UNCHANGED <<variant, doc, other, fnArg, fnRet, fpc, mainVars, notionVars>>

\* if (currentEntry) { ... } return entries
Return ==
    /\ pc = "save"
    /\ SetLocals(SaveLast(Locals))
    /\ pc' = "done"
    /\ UNCHANGED <<variant, doc, i, other, fnArg, fnRet, fpc, mainVars,
                   notionVars>>

Next == Scan \/ Return

Spec == Init /\ [][Next]_vars

\* the returned array, read through the references
Result == [k \in 1..Len(entries) |-> heap[entries[k]]]

-----------------------------------------------------------------------------
(* The rating extractor called on its own *)

InitRating ==
    /\ variant = "current"
    /\ doc = <<>>
    /\ i = 1
    /\ inWuSection = FALSE
    /\ currentEntry = 0
    /\ entryLines = <<>>
    /\ entries = <<>>
    /\ heap = <<>>
    /\ pc = "idle"
    /\ other = NoOther
    /\ fnArg \in Titles
    /\ fnRet = 0
    /\ fpc = "ready"
    /\ MainIdle
    /\ NotionIdle

CallExtractRating ==
    /\ fpc = "ready"
    /\ fnRet' = extractRating(fnArg)
    /\ fpc' = "returned"
    /\ UNCHANGED <<scanVars, fnArg, mainVars, notionVars>>

NextRating == CallExtractRating

SpecRating == InitRating /\ [][NextRating]_vars

TypeOK ==
    /\ variant \in Variants
    /\ i \in 1..(MaxLines + 2)
    /\ inWuSection \in BOOLEAN
    /\ currentEntry \in 0..Len(heap)
    /\ \A k \in 1..Len(entries) : entries[k] \in 1..Len(heap)
    /\ pc \in {"loop", "save", "done", "idle"}

-----------------------------------------------------------------------------
(* Vocabulary of the properties *)

Returned == pc = "done"

\* how often the reference x occurs in the sequence q
Count(q, x) == Cardinality({k \in 1..Len(q) : q[k] = x})

\* the locals just before line k is read
Before(k) == ScanPrefix(variant, doc, k - 1)

\* line k is read by the loop inside the section
ReadInSection(k) ==
    /\ k \in 1..Len(doc)
    /\ ~Before(k).brk
    /\ Before(k).inWuSection
    /\ ~IsMarker(Trim(doc[k]))

\* line k is a different second-level heading read inside the section
LeavesAt(k) == ReadInSection(k) /\ IsOtherH2(Trim(doc[k]))

\* line k is read inside the section as an entry line (not as a heading that
\* ends the section) while an entry is open
ReadWhileOpen(k) ==
    /\ ReadInSection(k)
    /\ ~IsOtherH2(Trim(doc[k]))
    /\ Before(k).currentEntry # 0

\* line k looks like an opener and matches neither form
IsAnomaly(t) == LooksLikeOpener(t) /\ ~HeadingMatch(t).ok /\ ~BulletMatch(t).ok

-----------------------------------------------------------------------------
(* C1 *)

\* C1: when a line starting with '## ' but not with the section marker is
\* read inside the section while an entry is open, that entry is finalized
\* (description = its buffered lines joined by single spaces, trimmed) and
\* occurs exactly once in the returned sequence.
C1_SectionEndSavesOnce ==
    Returned =>
        \A k \in 1..Len(doc) :
            (LeavesAt(k) /\ Before(k).currentEntry # 0) =>
                /\ Count(entries, Before(k).currentEntry) = 1
                /\ heap[Before(k).currentEntry].description
                       = JoinTrim(Before(k).entryLines)

-----------------------------------------------------------------------------
(* C2 *)

\* C2: a line read while an entry is open that looks like an opener but
\* matches neither form is continuation text only: its trimmed text is
\* appended to the buffer, the entry stays open, and the returned sequence
\* holds that entry exactly once.
C2_AnomalyIsContinuationOnly ==
    Returned =>
        \A k \in 1..Len(doc) :
            (ReadWhileOpen(k) /\ IsAnomaly(Trim(doc[k]))) =>
                LET before == Before(k)
                    after == ScanLine(variant, before, doc[k])
                IN  /\ after.currentEntry = before.currentEntry
                    /\ after.entryLines = Append(before.entryLines, Trim(doc[k]))
                    /\ Count(entries, before.currentEntry) = 1

-----------------------------------------------------------------------------
(* C3 *)

\* C3: no entry object changes after it has been pushed to the result
\* sequence.
C3_PushedEntriesFrozen ==
    [][\A k \in 1..Len(entries) : heap'[entries[k]] = heap[entries[k]]]_vars

-----------------------------------------------------------------------------
(* C4 *)

\* line k is a bullet-form line read while an entry with buffered
\* continuation text is open
BulletAfterText(k) ==
    /\ ReadWhileOpen(k)
    /\ Before(k).entryLines # <<>>
    /\ ~HeadingMatch(Trim(doc[k])).ok
    /\ BulletMatch(Trim(doc[k])).ok

\* C4: a bullet-form line read after continuation text of an open entry
\* closes that entry and opens another: the result holds the two as separate
\* entries, in that order, and the first one's description is exactly the
\* text buffered before the bullet line: nothing of the bullet line is
\* appended to it.
C4_BulletClosesAndReopens ==
    Returned =>
        \A k \in 1..Len(doc) :
            BulletAfterText(k) =>
                LET first == Before(k).currentEntry
                    second == Len(Before(k).heap) + 1
                IN  /\ first # second
                    /\ \E p, q \in 1..Len(entries) :
                           p < q /\ entries[p] = first /\ entries[q] = second
                    /\ heap[first].description = JoinTrim(Before(k).entryLines)

C4_Witness ==
    /\ Returned
    /\ \E k \in 1..Len(doc) : BulletAfterText(k)
    /\ Len(Result) >= 2

-----------------------------------------------------------------------------
(* C5 *)

\* the line about to be read opens an entry while another one is open
OpenerWhileOpen ==
    /\ pc = "loop"
    /\ i <= Len(doc)
    /\ inWuSection
    /\ currentEntry # 0
    /\ ~IsMarker(Trim(doc[i]))
    /\ ~IsOtherH2(Trim(doc[i]))
    /\ (HeadingMatch(Trim(doc[i])).ok \/ BulletMatch(Trim(doc[i])).ok)

\* C5: an opener line read while an entry is open finalizes and appends the
\* open entry, then opens a new one that is not yet in the result; the
\* result lists the entries in the order in which they were opened.
C5_CloseThenOpenInOrder ==
    /\ [][OpenerWhileOpen =>
            /\ entries' = Append(entries, currentEntry)
            /\ heap'[currentEntry].description = JoinTrim(entryLines)
            /\ Len(heap') = Len(heap) + 1
            /\ currentEntry' = Len(heap')
            /\ Count(entries', currentEntry') = 0]_vars
    /\ [](\A p, q \in 1..Len(entries) : p < q => entries[p] <= entries[q])

C5_Witness ==
    /\ Returned
    /\ \E k \in 1..Len(doc) :
           /\ ReadWhileOpen(k)
           /\ (HeadingMatch(Trim(doc[k])).ok \/ BulletMatch(Trim(doc[k])).ok)
    /\ \E p, q \in 1..Len(entries) : entries[p] < entries[q]

-----------------------------------------------------------------------------
(* C6 *)

HasMarker(d) == \E k \in 1..Len(d) : StartsWith(Trim(d[k]), SectionMarker)

\* C6: a document without a line that starts, after trimming, with the
\* section marker yields the empty sequence.
C6_NoMarkerNoEntries == (Returned /\ ~HasMarker(doc)) => Result = <<>>

C6_Witness ==
    /\ Returned
    /\ ~HasMarker(doc)
    /\ \E k \in 1..Len(doc) : BulletMatch(Trim(doc[k])).ok
    /\ \E k \in 1..Len(doc) : IsOtherH2(Trim(doc[k]))

-----------------------------------------------------------------------------
(* C7 *)

\* the lines at which a different second-level heading follows the marker:
\* read off the document, not off the scanner
ExitLines(d) ==
    {k \in 1..Len(d) :
        /\ IsOtherH2(Trim(d[k]))
        /\ \E j \in 1..(k - 1) : IsMarker(Trim(d[j]))}

\* C7: the scanner halts at the first different second-level heading that
\* follows the marker: the loop index stays there and the result is the
\* result for the document cut off after that line.
C7_NothingScannedAfterExit ==
    (Returned /\ ExitLines(doc) # {}) =>
        LET x == MinOf(ExitLines(doc))
        IN  /\ i = x
            /\ Result = parseWuSection(variant, SubSeq(doc, 1, x))

C7_Witness ==
    /\ Returned
    /\ ExitLines(doc) # {}
    /\ \E j, k \in 1..Len(doc) :
           /\ MinOf(ExitLines(doc)) < j
           /\ j < k
           /\ IsMarker(Trim(doc[j]))
           /\ BulletMatch(Trim(doc[k])).ok

-----------------------------------------------------------------------------
(* C8 *)

HasGlyph(s) == \E k \in 1..Len(ratingEmojis) : Includes(s, ratingEmojis[k])

\* line k is a bullet line with a link, read inside the section
LinkedBullet(k) ==
    /\ ReadInSection(k)
    /\ ~IsOtherH2(Trim(doc[k]))
    /\ ~(Trim(doc[k]) = <<>> /\ Before(k).currentEntry = 0)
    /\ ~HeadingMatch(Trim(doc[k])).ok
    /\ BulletMatch(Trim(doc[k])).ok
    /\ BulletMatch(Trim(doc[k])).g2 # Null
    /\ ~HasGlyph(BulletMatch(Trim(doc[k])).g1)

\* the entry object line k opens
OpenedAt(k) == heap[Len(Before(k).heap) + 1]

-----------------------------------------------------------------------------
(* C9 *)

\* C9: every returned entry has a non-empty title.
C9_TitleNonEmpty ==
    Returned => \A k \in 1..Len(Result) : Result[k].title # <<>>

-----------------------------------------------------------------------------
(* C10 *)

\* C10: extractRating returns an integer in 1..5 for every string, the empty
\* one included, and 3 for a string without any of the five glyphs.
C10_RatingTotal ==
    fpc = "returned" =>
        /\ fnRet \in 1..5
        /\ (~HasGlyph(fnArg) => fnRet = 3)

C10_Witness == fpc = "returned" /\ fnArg = <<>> /\ fnRet = 3

-----------------------------------------------------------------------------
(* The title cleaner called on its own, and on its own result *)

InitClean == InitRating

CallCleanTitle ==
    /\ fpc = "ready"
    /\ fnRet' = cleanTitle(fnArg)
    /\ fpc' = "cleaned"
    /\ UNCHANGED <<scanVars, fnArg, mainVars, notionVars>>

CallCleanTitleAgain ==
    /\ fpc = "cleaned"
    /\ fnRet' = cleanTitle(fnRet)
    /\ fpc' = "recleaned"
    /\ UNCHANGED <<scanVars, fnArg, mainVars, notionVars>>

NextClean == CallCleanTitle \/ CallCleanTitleAgain

SpecClean == InitClean /\ [][NextClean]_vars

-----------------------------------------------------------------------------
(* C11 *)

\* C11: cleanTitle applied to its own result returns that result, and the
\* result holds none of the five rating glyphs.
C11_CleanTitleIdempotent ==
    /\ fpc \in {"cleaned", "recleaned"} => ~HasGlyph(fnRet)
    /\ fpc = "recleaned" => fnRet = cleanTitle(fnArg)

C11_Witness ==
    /\ fpc = "recleaned"
    /\ HasGlyph(fnArg)
    /\ fnArg # Trim(fnArg)
    /\ fnRet = <<"a">>

-----------------------------------------------------------------------------
(* C12 *)

\* line k is read inside the section and matches an opener form
OpenerAt(k) ==
    /\ ReadInSection(k)
    /\ ~IsOtherH2(Trim(doc[k]))
    /\ ~(Trim(doc[k]) = <<>> /\ Before(k).currentEntry = 0)
    /\ (HeadingMatch(Trim(doc[k])).ok \/ BulletMatch(Trim(doc[k])).ok)

\* the title as the opener line at k captures it
RawTitle(k) ==
    IF HeadingMatch(Trim(doc[k])).ok THEN HeadingMatch(Trim(doc[k])).g1
    ELSE BulletMatch(Trim(doc[k])).g1

\* C12: in the rating-extracting scanner every opener line yields an entry
\* whose rating is extractRating of the raw captured title and whose title
\* is cleanTitle of it; the heading "### [A<U+1F929>](u) t" yields rating 5
\* and title "A".
C12_RatingAndTitleFromRaw ==
    (Returned /\ variant = "current") =>
        \A k \in 1..Len(doc) :
            OpenerAt(k) =>
                /\ OpenedAt(k).rating = extractRating(RawTitle(k))
                /\ OpenedAt(k).title = cleanTitle(RawTitle(k))
                /\ (doc[k] = LHeading =>
                        OpenedAt(k).rating = 5 /\ OpenedAt(k).title = <<"A">>)

C12_Witness ==
    /\ Returned
    /\ variant = "current"
    /\ \E k \in 1..Len(doc) : OpenerAt(k) /\ doc[k] = LHeading
    /\ \E k \in 1..Len(doc) : OpenerAt(k) /\ BulletMatch(Trim(doc[k])).ok
    /\ \E k \in 1..Len(Result) : Result[k].rating = 5

-----------------------------------------------------------------------------
(* main: the entries of a run *)

MainVariants == {"js", "repo"}

\* an entry as main holds it: the scanner's object plus what main assigns
RunEntry(e, src, ym, post) ==
    [title |-> e.title, link |-> e.link, linkText |-> e.linkText,
     description |-> e.description, rating |-> e.rating,
     source |-> src, yearMonth |-> ym, postUrl |-> post]

LogLine(kind, text, nums) == [kind |-> kind, text |-> text, nums |-> nums]

-----------------------------------------------------------------------------
(* main: "Remove duplicates based on title (keep first occurrence)" *)

InitDedupe == [seen |-> {}, unique |-> <<>>, skipped |-> <<>>]

\* a pass that keys the set on source and title
DedupEntry_SourceKey(acc, entry) ==
    IF <<entry.source, entry.title>> \notin acc.seen
    THEN [acc EXCEPT !.seen = @ \cup {<<entry.source, entry.title>>},
                     !.unique = Append(@, entry)]
    ELSE [acc EXCEPT !.skipped = Append(@, entry.title)]

\* a pass that forgets a title when it drops a duplicate of it
DedupEntry_ForgetOnDrop(acc, entry) ==
    IF entry.title \notin acc.seen
    THEN [acc EXCEPT !.seen = @ \cup {entry.title},
                     !.unique = Append(@, entry)]
    ELSE [acc EXCEPT !.seen = @ \ {entry.title},
                     !.skipped = Append(@, entry.title)]

\* one iteration: if (!seenTitles.has(entryKey)) { ... } else { log }
DedupEntry(acc, entry) ==
    IF entry.title \notin acc.seen
    THEN [acc EXCEPT !.seen = @ \cup {entry.title},
                     !.unique = Append(@, entry)]
    ELSE [acc EXCEPT !.skipped = Append(@, entry.title)]

RECURSIVE DedupePrefix(_, _)
DedupePrefix(xs, k) ==
    IF k = 0 THEN InitDedupe ELSE DedupEntry(DedupePrefix(xs, k - 1), xs[k])

\* the whole pass over xs
Dedupe(xs) == DedupePrefix(xs, Len(xs)).unique

\* for (const entry of allEntries) { ... }: one iteration
DedupStep ==
    /\ mpc = "dedup"
    /\ dedupIdx <= Len(allEntries)
    /\ LET acc == DedupEntry([seen |-> seenTitles, unique |-> uniqueEntries,
                              skipped |-> <<>>], allEntries[dedupIdx])
       IN  /\ seenTitles' = acc.seen
           /\ uniqueEntries' = acc.unique
           /\ log' = log \o [k \in 1..Len(acc.skipped) |->
                                LogLine("duplicate", acc.skipped[k], <<>>)]
    /\ dedupIdx' = dedupIdx + 1
    /\ mpc' = IF dedupIdx = Len(allEntries) THEN "output" ELSE "dedup"
    /\ UNCHANGED <<mainVariant, repoSet, notionSet, args, argIdx, urls, urlIdx,
                   allEntries, fetches>>
    /\ UNCHANGED <<scanVars, fnVars, notionVars>>

\* a run that hands every merged entry on
RunResult_All == allEntries

\* what main prints and hands to addToNotion
RunResult == IF mainVariant = "repo" THEN uniqueEntries ELSE allEntries

\* "=== Results ===", the JSON, and the summary lines
Output ==
    /\ mpc = "output"
    /\ log' = log \o
              << LogLine("results", <<>>, <<Len(RunResult)>>),
                 IF mainVariant = "repo"
                 THEN LogLine("summary", <<>>,
                              << Len(allEntries),
                                 Len(allEntries) - Len(uniqueEntries),
                                 Len(uniqueEntries) >>)
                 ELSE LogLine("summary", <<>>, <<Len(allEntries)>>) >>
    /\ mpc' = "printed"
    /\ UNCHANGED <<mainVariant, repoSet, notionSet, args, argIdx, urls, urlIdx,
                   allEntries, seenTitles, uniqueEntries, dedupIdx, fetches>>
    /\ UNCHANGED <<scanVars, fnVars, notionVars>>

-----------------------------------------------------------------------------
(* The deduplication pass on its own *)

TitleX == <<"X">>

TitleY == <<"Y">>

SourceA == <<"h", "t", "t", "p", ":", "/", "/", "a">>

SourceB == <<"h", "t", "t", "p", "s", ":", "/", "/", "b">>

BareEntry(t) ==
    [title |-> t, link |-> Null, linkText |-> Null, description |-> <<>>,
     rating |-> DefaultRating]

DedupEntries ==
    {RunEntry(BareEntry(t), src, Null, Null) :
        t \in {TitleX, TitleY}, src \in {SourceA, SourceB}}

DedupInputs == UNION {[1..n -> DedupEntries] : n \in 0..MaxEntries}

InitDedup ==
    /\ ScanIdle
    /\ FnIdle
    /\ NotionIdle
    /\ mainVariant = "repo"
    /\ repoSet = TRUE
    /\ notionSet = TRUE
    /\ args = <<>>
    /\ argIdx = 1
    /\ urls = <<>>
    /\ urlIdx = 1
    /\ allEntries \in DedupInputs
    /\ seenTitles = {}
    /\ uniqueEntries = <<>>
    /\ dedupIdx = 1
    /\ mpc = (IF allEntries = <<>> THEN "output" ELSE "dedup")
    /\ log = <<>>
    /\ fetches = <<>>

NextDedup == DedupStep \/ Output

SpecDedup == InitDedup /\ [][NextDedup]_vars

-----------------------------------------------------------------------------
(* C13 *)

\* the positions of allEntries that hold the first entry of their title
FirstOfTitle ==
    {k \in 1..Len(allEntries) :
        \A j \in 1..(k - 1) : allEntries[j].title # allEntries[k].title}

RECURSIVE AtPositions(_, _, _)
\* the elements of xs at the positions in S from k on, in order
AtPositions(xs, S, k) ==
    IF k > Len(xs) THEN <<>>
    ELSE IF k \in S THEN <<xs[k]>> \o AtPositions(xs, S, k + 1)
    ELSE AtPositions(xs, S, k + 1)

\* the log lines of one kind
LogOf(kind) == SelectSeq(log, LAMBDA l : l.kind = kind)

\* C13: the pass keeps exactly the first entry of every title, in the
\* original order, whatever the sources; every other entry is dropped and
\* logged, and the summary reports as removed the number of dropped entries.
C13_DedupKeepsFirstOfTitle ==
    (mpc = "printed" /\ mainVariant = "repo") =>
        /\ uniqueEntries = AtPositions(allEntries, FirstOfTitle, 1)
        /\ Len(LogOf("duplicate")) = Len(allEntries) - Cardinality(FirstOfTitle)
        /\ LogOf("summary")[1].nums[2] = Len(allEntries) - Cardinality(FirstOfTitle)

C13_Witness ==
    /\ mpc = "printed"
    /\ Len(allEntries) = 2
    /\ allEntries[1].title = TitleX
    /\ allEntries[2].title = TitleX
    /\ allEntries[1].source # allEntries[2].source
    /\ uniqueEntries = <<allEntries[1]>>
    /\ LogOf("summary")[1].nums[2] = 1

-----------------------------------------------------------------------------
(* C14 *)

\* C14: the pass applied to its own output returns that output.
C14_DedupIdempotent ==
    (mpc = "printed" /\ mainVariant = "repo") =>
        Dedupe(uniqueEntries) = uniqueEntries

C14_Witness ==
    /\ mpc = "printed"
    /\ Len(allEntries) = 4
    /\ Len(uniqueEntries) = 2
    /\ Dedupe(uniqueEntries) = uniqueEntries

-----------------------------------------------------------------------------
(* extractFrontmatterUrl *)

RECURSIVE JoinNl(_)
\* lines.join('\n')
JoinNl(ls) ==
    IF ls = <<>> THEN <<>>
    ELSE IF Len(ls) = 1 THEN ls[1]
    ELSE ls[1] \o <<NL>> \o JoinNl(Tail(ls))

RECURSIVE SplitNl(_)
\* content.split('\n')
SplitNl(c) ==
    LET f == Find(c, NL, 1)
    IN  IF f = 0 THEN <<c>>
        ELSE <<SubSeq(c, 1, f - 1)>> \o SplitNl(SubSeq(c, f + 1, Len(c)))

Dashes == <<"-", "-", "-">>

UrlKey == <<"u", "r", "l", ":">>

\* where ^---\s*\n can end: the newlines p with only whitespace in 4..p-1
Opens(c) ==
    IF StartsWith(c, Dashes)
    THEN {p \in 4..Len(c) : c[p] = NL /\ \A j \in 4..(p - 1) : IsWs(c[j])}
    ELSE {}

\* where \n---\s*\n can start at or after from
ClosesFrom(c, from) ==
    {q \in from..Len(c) :
        /\ c[q] = NL
        /\ q + 3 <= Len(c)
        /\ SubSeq(c, q + 1, q + 3) = Dashes
        /\ \E r \in (q + 4)..Len(c) :
              c[r] = NL /\ \A j \in (q + 4)..(r - 1) : IsWs(c[j])}

\* content.match(/^---\s*\n([\s\S]*?)\n---\s*\n/): group 1, or Null.
\* \s* is greedy (longest opening that still lets the rest match), the
\* group is lazy (nearest closing separator)
FrontmatterGroup(c) ==
    LET good == {p \in Opens(c) : ClosesFrom(c, p + 1) # {}}
    IN  IF good = {} THEN Null
        ELSE SubSeq(c, MaxOf(good) + 1, MinOf(ClosesFrom(c, MaxOf(good) + 1)) - 1)

\* index of the line terminator at or after k, Len(s)+1 when there is none
Eol(s, k) == IF Find(s, NL, k) = 0 THEN Len(s) + 1 ELSE Find(s, NL, k)

\* where (.+) starts for "url:" found at s: after the longest \s* that
\* leaves a character other than a line terminator; 0 when there is none
ValueStart(fm, s) ==
    LET e == SkipWs(fm, s + 4)
        ks == {k \in (s + 4)..MinOf({e, Len(fm)}) : fm[k] # NL}
    IN  IF ks = {} THEN 0 ELSE MaxOf(ks)

\* frontmatter.match(/^url:\s*(.+)$/m): group 1 of the leftmost match
UrlGroup(fm) ==
    LET hits == {s \in 1..Len(fm) :
                    /\ s = 1 \/ fm[s - 1] = NL
                    /\ s + 3 <= Len(fm)
                    /\ SubSeq(fm, s, s + 3) = UrlKey
                    /\ ValueStart(fm, s) # 0}
    IN  IF hits = {} THEN Null
        ELSE LET k == ValueStart(fm, MinOf(hits))
             IN  SubSeq(fm, k, Eol(fm, k) - 1)

IsQuote(c) == c \in {"\"", "'"}

\* .replace(/^["']|["']$/g, '')
StripQuotes(s) ==
    LET a == IF Len(s) >= 1 /\ IsQuote(s[1]) THEN 2 ELSE 1
        b == IF Len(s) >= 2 /\ IsQuote(s[Len(s)]) THEN Len(s) - 1 ELSE Len(s)
    IN  SubSeq(s, a, b)

extractFrontmatterUrl(content) ==
    LET frontmatter == FrontmatterGroup(content)
    IN  IF frontmatter = Null THEN Null
        ELSE IF UrlGroup(frontmatter) = Null THEN Null
        ELSE StripQuotes(Trim(UrlGroup(frontmatter)))

-----------------------------------------------------------------------------
(* extractFrontmatterUrl on its own *)

FSep == Dashes

FSepSp == <<"-", "-", "-", " ">>

FUrl == <<"u", "r", "l", ":", " ", "/", "p">>

FUrlQ == <<"u", "r", "l", ":", " ", "\"", "/", "p", "\"">>

FUrlBlank == UrlKey

FKey == <<"t", ":", " ", "x">>

FIndent == <<" ", "u", "r", "l", ":", " ", "/", "q">>

FBlank == <<>>

FmLines == {FSep, FSepSp, FUrl, FUrlQ, FUrlBlank, FKey, FIndent, FBlank}

\* documents of up to MaxFmLines lines, with or without a final newline
FmContents ==
    LET seqs == UNION {[1..n -> FmLines] : n \in 0..MaxFmLines}
    IN  {JoinNl(ls) : ls \in seqs} \cup {JoinNl(ls) \o <<NL>> : ls \in seqs}

InitFrontmatter ==
    /\ ScanIdle
    /\ MainIdle
    /\ NotionIdle
    /\ fnArg \in FmContents
    /\ fnRet = 0
    /\ fpc = "ready"

CallExtractFrontmatterUrl ==
    /\ fpc = "ready"
    /\ fnRet' = extractFrontmatterUrl(fnArg)
    /\ fpc' = "extracted"
    /\ UNCHANGED <<scanVars, fnArg, mainVars, notionVars>>

NextFrontmatter == CallExtractFrontmatterUrl

SpecFrontmatter == InitFrontmatter /\ [][NextFrontmatter]_vars

-----------------------------------------------------------------------------
(* C15 *)

\* a line that is a separator: three dashes, then whitespace only
IsSepLine(l) == StartsWith(l, Dashes) /\ \A j \in 4..Len(l) : IsWs(l[j])

\* the lines after the first that are separators
SepLinesAfterFirst(ls) == {k \in 2..Len(ls) : IsSepLine(ls[k])}

NoBlockAtStart(ls) == ~IsSepLine(ls[1])

OpenedNotClosed(ls) == IsSepLine(ls[1]) /\ SepLinesAfterFirst(ls) = {}

BlockWithoutUrlKey(ls) ==
    /\ IsSepLine(ls[1])
    /\ SepLinesAfterFirst(ls) # {}
    /\ MinOf(SepLinesAfterFirst(ls)) < Len(ls)
    /\ \A j \in 2..(MinOf(SepLinesAfterFirst(ls)) - 1) : ~StartsWith(ls[j], UrlKey)

\* C15: extractFrontmatterUrl returns null for a document whose first line
\* is not a separator, for one with an opening separator and no later
\* separator line, and for one whose block (the lines between the first
\* line and the next separator line) has no line starting with "url:".
\* Violated: when the second line is a separator too (an empty block) the
\* pattern cannot close there, runs on to a later separator, and a "url:"
\* line of the body is returned.
C15_AbsentWithoutBlockOrKey ==
    fpc = "extracted" =>
        LET ls == SplitNl(fnArg)
        IN  (NoBlockAtStart(ls) \/ OpenedNotClosed(ls) \/ BlockWithoutUrlKey(ls))
                => fnRet = Null

-----------------------------------------------------------------------------
(* main: configuration and the world it fetches from *)

GITHUB_REPO ==
    <<"m", "t", "f", "r", "o", "n", "t", "/", "m", "t", "f", "r", "o", "n",
          "t">>

GITHUB_BRANCH == <<"m", "a", "i", "n">>

BASE_PATH ==
    <<"c", "o", "n", "t", "e", "n", "t", "/", "p", "o", "s", "t", "s">>

URL_PREFIX ==
    <<"h", "t", "t", "p", "s", ":", "/", "/", "b", "l", "o", "g", ".", "d",
          "o", "u", "c", "h", "i", ".", "s", "p", "a", "c", "e">>

URL_SUFFIX ==
    <<"?", "u", "t", "m", "_", "s", "o", "u", "r", "c", "e", "=", "n", "o",
          "t", "i", "o", "n", "_", "s", "h", "o", "p", "p", "i", "n", "g">>

\* the value of REPO_NAME in a run that sets it
RepoNameSet == <<"o", "/", "r">>

\* the repository the file list is asked of
RepoOf(v) == IF v = "js" THEN GITHUB_REPO ELSE RepoNameSet

ApiBase ==
    <<"h", "t", "t", "p", "s", ":", "/", "/", "a", "p", "i", ".", "g", "i",
          "t", "h", "u", "b", ".", "c", "o", "m", "/", "r", "e", "p", "o",
          "s", "/">>

RawBase ==
    <<"h", "t", "t", "p", "s", ":", "/", "/", "r", "a", "w", ".", "g", "i",
          "t", "h", "u", "b", "u", "s", "e", "r", "c", "o", "n", "t", "e",
          "n", "t", ".", "c", "o", "m", "/">>

Slash == <<"/">>

Dash == <<"-">>

\* fetchFileList: the URL it fetches
ApiUrl(v, year, month) ==
    ApiBase \o RepoOf(v) \o
    <<"/", "c", "o", "n", "t", "e", "n", "t", "s", "/">> \o
    BASE_PATH \o Slash \o year \o Dash \o month

\* the "common patterns" tried when the list is empty
PatternUrls(year, month) ==
    LET ym == year \o Dash \o month
        base == RawBase \o GITHUB_REPO \o Slash \o GITHUB_BRANCH \o Slash \o
                BASE_PATH \o Slash \o ym \o Slash
        digest == <<"s", "p", "a", "r", "k", "-", "j", "o", "y", "-", "d", "i", "g", "e",
          "s", "t", "-">> \o
                  ym \o <<".", "m", "d">>
    IN  << base \o <<"6", "-">> \o digest, base \o digest >>

UrlA == <<"h", "t", "t", "p", ":", "/", "/", "a">>

UrlB == <<"h", "t", "t", "p", "s", ":", "/", "/", "b">>

\* download URLs a file list can name
UrlF == <<"h", "t", "t", "p", "s", ":", "/", "/", "f">>

UrlG == <<"h", "t", "t", "p", "s", ":", "/", "/", "g">>

ArgYM == <<"1", "-", "2">>

ArgBad == <<"x">>

ArgSet == {UrlA, UrlB, ArgYM, ArgBad}

ArgLists == UNION {[1..n -> ArgSet] : n \in 0..MaxArgs}

FileLists == {<<>>, <<UrlF>>, <<UrlF, UrlG>>}

BulletOf(c) == <<"-", BT, c, BT>>

\* frontmatter url /p, one entry X
DocA == JoinNl(<<FSep, FUrl, FSep, LMarker, BulletOf("X")>>)

\* no frontmatter, entries X and Y
DocB == JoinNl(<<LMarker, BulletOf("X"), BulletOf("Y")>>)

\* frontmatter url "/p" in quotes, one entry Z
DocF == JoinNl(<<FSep, FUrlQ, FSep, LMarker, BulletOf("Z")>>)

\* frontmatter without url, one entry Y
DocG == JoinNl(<<FSep, FKey, FSep, LMarker, BulletOf("Y")>>)

\* what a successful fetch of url returns
ContentOf(url) ==
    CASE url = UrlA -> DocA
      [] url = UrlB -> DocB
      [] url = UrlG -> DocG
      [] OTHER -> DocF

-----------------------------------------------------------------------------
(* main: the argument loop *)

Http == <<"h", "t", "t", "p", ":", "/", "/">>

Https == <<"h", "t", "t", "p", "s", ":", "/", "/">>

\* arg.startsWith('http://') || arg.startsWith('https://')
IsUrlArg(arg) == StartsWith(arg, Http) \/ StartsWith(arg, Https)

\* yearMonth.split('-')[0]
YearOf(arg) ==
    IF Find(arg, "-", 1) = 0 THEN arg ELSE SubSeq(arg, 1, Find(arg, "-", 1) - 1)

\* yearMonth.split('-')[1], Null when there is no second piece
MonthOf(arg) ==
    LET f == Find(arg, "-", 1)
        g == Find(arg, "-", f + 1)
    IN  IF f = 0 THEN Null
        ELSE IF g = 0 THEN SubSeq(arg, f + 1, Len(arg))
        ELSE SubSeq(arg, f + 1, g - 1)

\* !year || !month
InvalidYearMonth(arg) ==
    YearOf(arg) = <<>> \/ MonthOf(arg) = Null \/ MonthOf(arg) = <<>>

\* if (frontmatterUrl)
Truthy(x) == x # Null /\ x # <<>>

\* entry.postUrl of the URL branch
PostUrlOfArg(v, content) ==
    IF v = "repo" /\ Truthy(extractFrontmatterUrl(content))
    THEN URL_PREFIX \o extractFrontmatterUrl(content) \o URL_SUFFIX \o URL_SUFFIX
    ELSE Null

\* entry.postUrl of the year-month branch
PostUrlOfFile(v, content) ==
    IF v = "repo" /\ Truthy(extractFrontmatterUrl(content))
    THEN URL_PREFIX \o extractFrontmatterUrl(content)
    ELSE Null

\* a tagging that leaves yearMonth out
Tagged_NoYearMonth(found, url, ym, post) ==
    [k \in 1..Len(found) |-> RunEntry(found[k], url, Null, post)]

\* entries.forEach(entry => { entry.source = ...; ... })
Tagged(found, url, ym, post) ==
    [k \in 1..Len(found) |-> RunEntry(found[k], url, ym, post)]

\* parseStuffSection(content) is entered
CallParse(content) ==
    /\ variant' = "current"
    /\ doc' = SplitNl(content)
    /\ i' = 1
    /\ SetLocals(InitScan)
    /\ pc' = "loop"
    /\ UNCHANGED other

\* the call has returned and its locals are gone
LeaveParse ==
    /\ variant' = "current"
    /\ doc' = <<>>
    /\ i' = 1
    /\ SetLocals(InitScan)
    /\ pc' = "idle"
    /\ UNCHANGED other

\* a try block that loses the merged entries when the fetch throws
Merge_ResetOnError(all, ok, tagged) == IF ok THEN all \o tagged ELSE <<>>

\* try { ...; allEntries.push(...entries) } catch (error) { log }
Merge(all, ok, tagged) == IF ok THEN all \o tagged ELSE all

Fetch(kind, url, ok) == [kind |-> kind, url |-> url, ok |-> ok, arg |-> argIdx]

\* a start that does not look at REPO_NAME
StartMain_NoRepoCheck ==
    /\ mpc = "start"
    /\ IF args = <<>>
       THEN /\ log' = Append(log, LogLine("usage", <<>>, <<>>))
            /\ mpc' = "exit1"
       ELSE /\ mpc' = "args"
            /\ log' = log
    /\ UNCHANGED <<mainVariant, repoSet, notionSet, args, argIdx, urls, urlIdx,
                   allEntries, seenTitles, uniqueEntries, dedupIdx, fetches>>
    /\ UNCHANGED <<scanVars, fnVars, notionVars>>

\* the checks before the loop
StartMain ==
    /\ mpc = "start"
    /\ IF args = <<>>
       THEN /\ log' = Append(log, LogLine("usage", <<>>, <<>>))
            /\ mpc' = "exit1"
       ELSE IF mainVariant = "repo" /\ ~repoSet
       THEN /\ log' = Append(log, LogLine("no-repo", <<>>, <<>>))
            /\ mpc' = "exit1"
       ELSE /\ mpc' = "args"
            /\ log' = log
    /\ UNCHANGED <<mainVariant, repoSet, notionSet, args, argIdx, urls, urlIdx,
                   allEntries, seenTitles, uniqueEntries, dedupIdx, fetches>>
    /\ UNCHANGED <<scanVars, fnVars, notionVars>>

\* one argument that is a URL: the fetch, up to the call of the parser
ProcessUrlArg ==
    /\ mpc = "args"
    /\ argIdx <= Len(args)
    /\ IsUrlArg(args[argIdx])
    /\ \E ok \in BOOLEAN :
          LET arg == args[argIdx]
          IN  /\ fetches' = Append(fetches, Fetch("doc", arg, ok))
              /\ allEntries' = (IF ok THEN allEntries
                                ELSE Merge(allEntries, FALSE, <<>>))
              /\ IF ok
                 THEN /\ CallParse(ContentOf(arg))
                      /\ log' = Append(log, LogLine("processing", arg, <<>>))
                      /\ mpc' = "parse"
                      /\ argIdx' = argIdx
                 ELSE /\ UNCHANGED scanVars
                      /\ log' = log \o << LogLine("processing", arg, <<>>),
                                          LogLine("error", arg, <<>>) >>
                      /\ mpc' = "args"
                      /\ argIdx' = argIdx + 1
    /\ UNCHANGED <<mainVariant, repoSet, notionSet, args, urls, urlIdx,
                   seenTitles, uniqueEntries, dedupIdx>>
    /\ UNCHANGED <<fnVars, notionVars>>

\* the URL branch once the parser has returned
MergeUrlEntries ==
    /\ mpc = "parse"
    /\ pc = "done"
    /\ IsUrlArg(args[argIdx])
    /\ LET arg == args[argIdx]
           tagged == Tagged(Result, arg, Null,
                            PostUrlOfArg(mainVariant, ContentOf(arg)))
       IN  /\ allEntries' = Merge(allEntries, TRUE, tagged)
           /\ log' = Append(log, LogLine("found", arg, <<Len(tagged)>>))
    /\ LeaveParse
    /\ mpc' = "args"
    /\ argIdx' = argIdx + 1
    /\ UNCHANGED <<mainVariant, repoSet, notionSet, args, urls, urlIdx,
                   seenTitles, uniqueEntries, dedupIdx, fetches>>
    /\ UNCHANGED <<fnVars, notionVars>>

\* one argument that is neither a URL nor year-month
InvalidArg ==
    /\ mpc = "args"
    /\ argIdx <= Len(args)
    /\ ~IsUrlArg(args[argIdx])
    /\ InvalidYearMonth(args[argIdx])
    /\ log' = Append(log, LogLine("invalid", args[argIdx], <<>>))
    /\ argIdx' = argIdx + 1
    /\ UNCHANGED <<mainVariant, repoSet, notionSet, args, urls, urlIdx,
                   allEntries, seenTitles, uniqueEntries, dedupIdx, mpc, fetches>>
    /\ UNCHANGED <<scanVars, fnVars, notionVars>>

\* one year-month argument, up to the file list
FetchFileList ==
    /\ mpc = "args"
    /\ argIdx <= Len(args)
    /\ ~IsUrlArg(args[argIdx])
    /\ ~InvalidYearMonth(args[argIdx])
    /\ \E ok \in BOOLEAN, files \in FileLists :
          LET arg == args[argIdx]
              url == ApiUrl(mainVariant, YearOf(arg), MonthOf(arg))
              list == IF ok THEN files ELSE <<>>
          IN  /\ ok \/ files = <<>>
              /\ fetches' = Append(fetches, Fetch("list", url, ok))
              /\ urls' = list
              /\ IF list # <<>>
                 THEN /\ mpc' = "files"
                      /\ log' = Append(log, LogLine("processing", arg, <<>>))
                      /\ argIdx' = argIdx
                 ELSE IF mainVariant = "js"
                 THEN /\ mpc' = "probe"
                      /\ log' = Append(log, LogLine("processing", arg, <<>>))
                      /\ argIdx' = argIdx
                 ELSE /\ mpc' = "args"
                      /\ log' = log \o << LogLine("processing", arg, <<>>),
                                          LogLine("no-files", arg, <<>>) >>
                      /\ argIdx' = argIdx + 1
    /\ urlIdx' = 1
    /\ UNCHANGED <<mainVariant, repoSet, notionSet, args, allEntries,
                   seenTitles, uniqueEntries, dedupIdx>>
    /\ UNCHANGED <<scanVars, fnVars, notionVars>>

\* "If file list fetch fails, try direct URL pattern"
ProbePatterns ==
    /\ mpc = "probe"
    /\ \E ok1 \in BOOLEAN, ok2 \in BOOLEAN :
          LET arg == args[argIdx]
              pats == PatternUrls(YearOf(arg), MonthOf(arg))
          IN  /\ ok1 => ok2
              /\ fetches' = fetches \o
                     (IF ok1 THEN << Fetch("probe", pats[1], TRUE) >>
                      ELSE << Fetch("probe", pats[1], FALSE),
                              Fetch("probe", pats[2], ok2) >>)
              /\ urls' = IF ok1 THEN <<pats[1]>>
                         ELSE IF ok2 THEN <<pats[2]>> ELSE <<>>
              /\ IF ok1 \/ ok2
                 THEN /\ mpc' = "files"
                      /\ log' = log
                      /\ argIdx' = argIdx
                 ELSE /\ mpc' = "args"
                      /\ log' = Append(log, LogLine("no-files", arg, <<>>))
                      /\ argIdx' = argIdx + 1
    /\ urlIdx' = 1
    /\ UNCHANGED <<mainVariant, repoSet, notionSet, args, allEntries,
                   seenTitles, uniqueEntries, dedupIdx>>
    /\ UNCHANGED <<scanVars, fnVars, notionVars>>

\* for (const url of urls): on to the next file, or to the next argument
NextFile ==
    IF urlIdx = Len(urls)
    THEN /\ mpc' = "args"
         /\ argIdx' = argIdx + 1
         /\ urls' = <<>>
         /\ urlIdx' = 1
    ELSE /\ mpc' = "files"
         /\ argIdx' = argIdx
         /\ urls' = urls
         /\ urlIdx' = urlIdx + 1

\* one file of a year-month argument: the fetch, up to the call of the parser
ProcessFile ==
    /\ mpc = "files"
    /\ urlIdx <= Len(urls)
    /\ \E ok \in BOOLEAN :
          LET url == urls[urlIdx]
          IN  /\ fetches' = Append(fetches, Fetch("doc", url, ok))
              /\ allEntries' = (IF ok THEN allEntries
                                ELSE Merge(allEntries, FALSE, <<>>))
              /\ IF ok
                 THEN /\ CallParse(ContentOf(url))
                      /\ log' = Append(log, LogLine("fetching", url, <<>>))
                      /\ mpc' = "parse"
                      /\ UNCHANGED <<argIdx, urls, urlIdx>>
                 ELSE /\ UNCHANGED scanVars
                      /\ log' = log \o << LogLine("fetching", url, <<>>),
                                          LogLine("error", url, <<>>) >>
                      /\ NextFile
    /\ UNCHANGED <<mainVariant, repoSet, notionSet, args,
                   seenTitles, uniqueEntries, dedupIdx>>
    /\ UNCHANGED <<fnVars, notionVars>>

\* the year-month branch once the parser has returned
MergeFileEntries ==
    /\ mpc = "parse"
    /\ pc = "done"
    /\ ~IsUrlArg(args[argIdx])
    /\ LET url == urls[urlIdx]
           tagged == Tagged(Result, url, args[argIdx],
                            PostUrlOfFile(mainVariant, ContentOf(url)))
       IN  /\ allEntries' = Merge(allEntries, TRUE, tagged)
           /\ log' = Append(log, LogLine("found", url, <<Len(tagged)>>))
    /\ LeaveParse
    /\ NextFile
    /\ UNCHANGED <<mainVariant, repoSet, notionSet, args,
                   seenTitles, uniqueEntries, dedupIdx, fetches>>
    /\ UNCHANGED <<fnVars, notionVars>>

\* the loop over the arguments ends
EndArgs ==
    /\ mpc = "args"
    /\ argIdx > Len(args)
    /\ mpc' = IF mainVariant = "repo" /\ allEntries # <<>> THEN "dedup" ELSE "output"
    /\ UNCHANGED <<mainVariant, repoSet, notionSet, args, argIdx, urls, urlIdx,
                   allEntries, seenTitles, uniqueEntries, dedupIdx, log, fetches>>
    /\ UNCHANGED <<scanVars, fnVars, notionVars>>

\* "Add to Notion if configured": the call, or the end of the run
FinishMain ==
    /\ mpc = "printed"
    /\ IF RunResult # <<>>
       THEN /\ log' = Append(log, LogLine("adding", <<>>, <<>>))
            /\ nEntries' = RunResult
            /\ npc' = "start"
            /\ calls' = calls + 1
            /\ mpc' = "upsert"
       ELSE /\ log' = IF mainVariant = "repo"
                      THEN Append(log, LogLine("no-entries", <<>>, <<>>))
                      ELSE log
            /\ mpc' = IF mainVariant = "repo" THEN "exit0" ELSE "done"
            /\ UNCHANGED <<nEntries, npc, calls>>
    /\ UNCHANGED <<mainVariant, repoSet, notionSet, args, argIdx, urls, urlIdx,
                   allEntries, seenTitles, uniqueEntries, dedupIdx, fetches>>
    /\ UNCHANGED <<scanVars, fnVars, store, existingPages, startCursor, nIdx>>

InitMain ==
    /\ ScanIdle
    /\ FnIdle
    /\ NotionIdle
    /\ mainVariant \in MainVariants
    /\ repoSet \in (IF mainVariant = "repo" THEN BOOLEAN ELSE {TRUE})
    /\ notionSet = TRUE
    /\ args \in ArgLists
    /\ argIdx = 1
    /\ urls = <<>>
    /\ urlIdx = 1
    /\ allEntries = <<>>
    /\ seenTitles = {}
    /\ uniqueEntries = <<>>
    /\ dedupIdx = 1
    /\ mpc = "start"
    /\ log = <<>>
    /\ fetches = <<>>

NextMain ==
    \/ StartMain
    \/ ProcessUrlArg
    \/ MergeUrlEntries
    \/ InvalidArg
    \/ FetchFileList
    \/ ProbePatterns
    \/ ProcessFile
    \/ MergeFileEntries
    \/ Scan
    \/ Return
    \/ EndArgs
    \/ DedupStep
    \/ Output
    \/ FinishMain

SpecMain == InitMain /\ [][NextMain]_vars

-----------------------------------------------------------------------------
(* C16 *)

\* C16: every merged entry whose document's frontmatter yields a url u has
\* postUrl = URL_PREFIX u URL_SUFFIX, on the URL branch and on the
\* year-month branch alike; an entry of a document without one has no
\* postUrl.  Violated on both branches: the URL branch appends the suffix
\* twice, the year-month branch not at all.
C16_PostUrlComposed ==
    mainVariant = "repo" =>
        \A k \in 1..Len(allEntries) :
            LET u == extractFrontmatterUrl(ContentOf(allEntries[k].source))
            IN  allEntries[k].postUrl =
                    IF Truthy(u) THEN URL_PREFIX \o u \o URL_SUFFIX ELSE Null

-----------------------------------------------------------------------------
(* C17 *)

PastArgs == mpc \in {"dedup", "output", "printed", "upsert", "exit0", "done"}

\* title and source of the entries of the document at url
EntriesAt(url) ==
    LET found == parseWuSection("current", SplitNl(ContentOf(url)))
    IN  [k \in 1..Len(found) |-> <<found[k].title, url>>]

RECURSIVE FetchedEntries(_)
\* the entries of the documents whose fetch succeeded, in fetch order
FetchedEntries(fs) ==
    IF fs = <<>> THEN <<>>
    ELSE FetchedEntries(SubSeq(fs, 1, Len(fs) - 1)) \o
         (IF fs[Len(fs)].kind = "doc" /\ fs[Len(fs)].ok
          THEN EntriesAt(fs[Len(fs)].url) ELSE <<>>)

FailedDocs == {k \in 1..Len(fetches) : fetches[k].kind = "doc" /\ ~fetches[k].ok}

\* C17: a failed fetch costs only its own document.  Once the arguments are
\* done the merged entries are those of every document whose fetch
\* succeeded, in order; the run has not exited with a failure; it ends
\* without the upsert only when there is nothing to upsert, and after the
\* results were printed; and within one argument no URL is fetched again
\* after its fetch failed.
C17_FetchFailureSkipsOneDocument ==
    /\ PastArgs =>
          [k \in 1..Len(allEntries) |-> <<allEntries[k].title, allEntries[k].source>>]
              = FetchedEntries(fetches)
    /\ mpc = "exit1" => fetches = <<>>
    /\ mpc \in {"exit0", "done"} => (RunResult = <<>> /\ LogOf("results") # <<>>)
    /\ mpc = "upsert" => (nEntries = RunResult /\ LogOf("results") # <<>>)
    /\ \A a \in 1..Len(fetches) : \A b \in (a + 1)..Len(fetches) :
          (~fetches[a].ok /\ fetches[b].arg = fetches[a].arg)
              => fetches[b].url # fetches[a].url

C17_Witness ==
    /\ mpc = "upsert"
    /\ args = <<ArgYM, UrlB>>
    /\ Len(fetches) = 4
    /\ fetches[2].url = UrlF /\ ~fetches[2].ok
    /\ fetches[3].url = UrlG /\ fetches[3].ok
    /\ fetches[4].url = UrlB /\ fetches[4].ok
    /\ FailedDocs = {2}
    /\ Len(allEntries) = 3
    /\ nEntries = RunResult

-----------------------------------------------------------------------------
(* C18 *)

\* C18: a run without REPO_NAME never leaves the start except to the
\* failure exit, and has then fetched no document and no file list, parsed
\* and merged nothing, and not called the store.
C18_NoRepoAbortsBeforeWork ==
    (mainVariant = "repo" /\ ~repoSet) =>
        /\ mpc \in {"start", "exit1"}
        /\ fetches = <<>>
        /\ allEntries = <<>>
        /\ LogOf("found") = <<>>
        /\ npc = "idle"
        /\ store = <<>>

C18_Witness ==
    /\ mainVariant = "repo"
    /\ ~repoSet
    /\ args = <<UrlA, ArgYM>>
    /\ mpc = "exit1"
    /\ log = <<LogLine("no-repo", <<>>, <<>>)>>
    /\ fetches = <<>>

-----------------------------------------------------------------------------
(* addToNotion *)

\* page_size of the query
PageSize == 100

Untitled == <<"U", "n", "t", "i", "t", "l", "e", "d">>

\* Map.prototype.get, 0 for undefined
MapGet(map, key) ==
    IF \E k \in 1..Len(map) : map[k].key = key
    THEN map[CHOOSE k \in 1..Len(map) : map[k].key = key].value
    ELSE 0

\* Map.prototype.set
MapSet(map, key, value) ==
    IF \E k \in 1..Len(map) : map[k].key = key
    THEN [k \in 1..Len(map) |->
             IF map[k].key = key THEN [map[k] EXCEPT !.value = value] ELSE map[k]]
    ELSE Append(map, [key |-> key, value |-> value])

RECURSIVE SetTitles(_, _)
\* for (const page of response.results) { ... existingPages.set(title, page.id) }
SetTitles(map, pages) ==
    IF pages = <<>> THEN map
    ELSE SetTitles(IF pages[1].title # Null
                   THEN MapSet(map, pages[1].title, pages[1].id)
                   ELSE map,
                   Tail(pages))

\* entry.title || 'Untitled'
EntryTitle(entry) == IF Truthy(entry.title) THEN entry.title ELSE Untitled

\* ratingMap[entry.rating] of the js addToNotion, Null when there is none
RatingOption(r) ==
    IF \E k \in 1..Len(ratingMap) : ratingMap[k].rating = r
    THEN <<ratingMap[CHOOSE k \in 1..Len(ratingMap) : ratingMap[k].rating = r].emoji>>
    ELSE Null

\* entry.rating.toString()
RatingText(r) ==
    CASE r = 1 -> "1" [] r = 2 -> "2" [] r = 3 -> "3" [] r = 4 -> "4" [] r = 5 -> "5"

\* properties that carry the description whether or not the page exists
Properties_AlwaysDescription(v, entry, existingPageId) ==
    [rating |-> IF entry.rating = NoRating THEN Null
                ELSE IF v = "js" THEN RatingOption(entry.rating)
                ELSE <<RatingText(entry.rating)>>,
     link |-> IF Truthy(entry.link) THEN entry.link ELSE Null,
     postUrl |-> IF v = "repo" /\ Truthy(entry.postUrl) THEN entry.postUrl ELSE Null,
     description |-> IF Truthy(entry.description) THEN entry.description ELSE Null]

\* the properties object before 'Name' is added; Null for a key not set
Properties(v, entry, existingPageId) ==
    [rating |-> IF entry.rating = NoRating THEN Null
                ELSE IF v = "js" THEN RatingOption(entry.rating)
                ELSE <<RatingText(entry.rating)>>,
     link |-> IF Truthy(entry.link) THEN entry.link ELSE Null,
     postUrl |-> IF v = "repo" /\ Truthy(entry.postUrl) THEN entry.postUrl ELSE Null,
     description |-> IF existingPageId = 0 /\ Truthy(entry.description)
                     THEN entry.description ELSE Null]

\* Object.keys(properties).length > 0
HasKeys(props) ==
    props.rating # Null \/ props.link # Null \/ props.postUrl # Null
        \/ props.description # Null

\* notion.pages.create: the new record
Created(id, title, props) ==
    [id |-> id, title |-> title, rating |-> props.rating, link |-> props.link,
     postUrl |-> props.postUrl, description |-> props.description]

\* notion.pages.update: the properties given replace the record's
Updated(page, props) ==
    [page EXCEPT !.rating = IF props.rating # Null THEN props.rating ELSE @,
                 !.link = IF props.link # Null THEN props.link ELSE @,
                 !.postUrl = IF props.postUrl # Null THEN props.postUrl ELSE @,
                 !.description = IF props.description # Null
                                 THEN props.description ELSE @]

\* the guard at the top, and the empty map
StartNotion ==
    /\ npc = "start"
    /\ IF ~notionSet
       THEN /\ log' = Append(log, LogLine("notion-skipped", <<>>, <<>>))
            /\ npc' = "returned"
       ELSE /\ log' = log
            /\ npc' = "query"
    /\ existingPages' = <<>>
    /\ startCursor' = 0
    /\ nIdx' = 1
    /\ UNCHANGED <<store, nEntries, calls>>
    /\ UNCHANGED <<scanVars, fnVars, mainVariant, repoSet, notionSet, args, argIdx,
                   urls, urlIdx, allEntries, seenTitles, uniqueEntries, dedupIdx,
                   mpc, fetches>>

\* one notion.databases.query of the while loop: the store answers with the
\* next records, at most page_size of them, or the call throws
QueryPages ==
    /\ npc = "query"
    /\ \E ok \in BOOLEAN, n \in 0..MinOf({PageSize, Len(store) - startCursor}) :
          /\ (n = 0) <=> (~ok \/ startCursor = Len(store))
          /\ IF ok
             THEN /\ existingPages' =
                        SetTitles(existingPages,
                                  SubSeq(store, startCursor + 1, startCursor + n))
                  /\ startCursor' = startCursor + n
                  /\ npc' = IF startCursor + n < Len(store) THEN "query"
                            ELSE IF nEntries = <<>> THEN "returned" ELSE "loop"
                  /\ log' = log
             ELSE /\ log' = Append(log, LogLine("query-failed", <<>>, <<>>))
                  /\ npc' = IF nEntries = <<>> THEN "returned" ELSE "loop"
                  /\ UNCHANGED <<existingPages, startCursor>>
    /\ UNCHANGED <<store, nEntries, nIdx, calls>>
    /\ UNCHANGED <<scanVars, fnVars, mainVariant, repoSet, notionSet, args, argIdx,
                   urls, urlIdx, allEntries, seenTitles, uniqueEntries, dedupIdx,
                   mpc, fetches>>

\* a catch block that gives up on the remaining entries
LoopAfter_StopOnFailure(failed, last) ==
    IF last \/ failed THEN "returned" ELSE "loop"

\* catch (error) { console.error(...) }: the for loop goes on
LoopAfter(failed, last) == IF last THEN "returned" ELSE "loop"

\* for (const entry of entries) { try { ... } catch { ... } }: one entry;
\* ok: the call to the store, when one is made, succeeds
ProcessEntry ==
    /\ npc = "loop"
    /\ nIdx <= Len(nEntries)
    /\ \E ok \in BOOLEAN :
          LET entry == nEntries[nIdx]
              entryTitle == EntryTitle(entry)
              existingPageId == MapGet(existingPages, entryTitle)
              props == Properties(mainVariant, entry, existingPageId)
              updates == existingPageId # 0 /\ mainVariant = "js" /\ HasKeys(props)
              creates == existingPageId = 0
          IN  /\ ok \/ updates \/ creates
              /\ store' = IF ~ok THEN store
                          ELSE IF updates
                          THEN [store EXCEPT ![existingPageId] = Updated(@, props)]
                          ELSE IF creates
                          THEN Append(store, Created(Len(store) + 1, entryTitle, props))
                          ELSE store
              /\ log' = Append(log,
                               IF ~ok THEN LogLine("failed", entry.title, <<>>)
                               ELSE IF updates THEN LogLine("updated", entryTitle, <<>>)
                               ELSE IF creates THEN LogLine("added", entryTitle, <<>>)
                               ELSE LogLine("skipped", entryTitle, <<>>))
              /\ npc' = LoopAfter(~ok, nIdx = Len(nEntries))
    /\ nIdx' = nIdx + 1
    /\ UNCHANGED <<existingPages, startCursor, nEntries, calls>>
    /\ UNCHANGED <<scanVars, fnVars, mainVariant, repoSet, notionSet, args, argIdx,
                   urls, urlIdx, allEntries, seenTitles, uniqueEntries, dedupIdx,
                   mpc, fetches>>

\* the caller passes the same entries again
CallAgain ==
    /\ npc = "returned"
    /\ calls < MaxCalls
    /\ npc' = "start"
    /\ calls' = calls + 1
    /\ UNCHANGED <<store, existingPages, startCursor, nEntries, nIdx>>
    /\ UNCHANGED <<scanVars, fnVars, mainVars>>

-----------------------------------------------------------------------------
(* addToNotion on its own *)

LinkU == <<"u">>

TextD == <<"d">>

UpsertEntry(t, r, l, d) ==
    RunEntry([title |-> t, link |-> l, linkText |-> Null, description |-> d,
              rating |-> r], UrlA, Null, Null)

UpsertEntries ==
    { UpsertEntry(TitleX, 5, LinkU, TextD),
      UpsertEntry(TitleX, DefaultRating, Null, <<>>),
      UpsertEntry(TitleY, NoRating, Null, TextD),
      UpsertEntry(<<>>, DefaultRating, Null, <<>>) }

UpsertLists == UNION {[1..n -> UpsertEntries] : n \in 1..MaxUpserts}

OldText == <<"o">>

\* a record that was in the store before the call
OldPage(id, t) ==
    [id |-> id, title |-> t, rating |-> OldText, link |-> OldText,
     postUrl |-> OldText, description |-> OldText]

\* stores with at most one record per title; a record may have no title
InitStores ==
    { <<>>,
      <<OldPage(1, TitleX)>>,
      <<OldPage(1, TitleX), OldPage(2, TitleY)>>,
      <<OldPage(1, Null), OldPage(2, TitleX)>> }

InitNotion ==
    /\ ScanIdle
    /\ FnIdle
    /\ mainVariant \in MainVariants
    /\ repoSet = TRUE
    /\ notionSet \in BOOLEAN
    /\ args = <<>>
    /\ argIdx = 1
    /\ urls = <<>>
    /\ urlIdx = 1
    /\ allEntries = <<>>
    /\ seenTitles = {}
    /\ uniqueEntries = <<>>
    /\ dedupIdx = 1
    /\ mpc = "upsert"
    /\ log = <<>>
    /\ fetches = <<>>
    /\ store \in InitStores
    /\ existingPages = <<>>
    /\ startCursor = 0
    /\ nEntries \in UpsertLists
    /\ nIdx = 1
    /\ npc = "start"
    /\ calls = 1

NextNotion == StartNotion \/ QueryPages \/ ProcessEntry \/ CallAgain

SpecNotion == InitNotion /\ [][NextNotion]_vars

-----------------------------------------------------------------------------
(* C19 *)

\* C19: a step of the entry loop whose entry's title has a record in the
\* store leaves that record as it was.  Violated by the addToNotion of
\* parse-spark-joy.js, which updates the rating and link of the record.
C19_ExistingRecordUntouched ==
    [][\A k \in 1..Len(store) :
          (npc = "loop" /\ store[k].title = EntryTitle(nEntries[nIdx]))
              => store'[k] = store[k]]_vars

-----------------------------------------------------------------------------
(* C20 *)

\* C20: started on a store with at most one record per title, addToNotion
\* never leaves two records with the same title.  Violated: the map of
\* existing titles is filled once, before the loop, and a record created
\* in the loop is not added to it; it also stays empty when the query throws.
C20_OneRecordPerTitle ==
    \A a \in 1..Len(store) : \A b \in 1..Len(store) :
        (a # b /\ store[a].title # Null) => store[a].title # store[b].title

-----------------------------------------------------------------------------
(* C21 *)

\* no call to the store has failed so far
NoFailure == LogOf("failed") = <<>> /\ LogOf("query-failed") = <<>>

-----------------------------------------------------------------------------
(* C22 *)

\* the lines the entry loop has printed, one per entry processed
EntryReports ==
    SelectSeq(log, LAMBDA l : l.kind \in {"added", "updated", "skipped", "failed"})

\* C22: a failed write ends nothing but its own entry.  The loop reports
\* every entry of every call, in order, each under its own title; the call
\* returns only after the last entry; and an entry reported as added has
\* its record in the store whatever happened to the entries before it.
C22_FailureDoesNotStopLoop ==
    LET reports == EntryReports
    IN  /\ npc \in {"loop", "returned"} /\ notionSet =>
              Len(reports) = (calls - 1) * Len(nEntries) + (nIdx - 1)
        /\ npc = "returned" /\ notionSet => nIdx = Len(nEntries) + 1
        /\ \A k \in 1..Len(reports) :
              LET entry == nEntries[((k - 1) % Len(nEntries)) + 1]
              IN  /\ reports[k].text =
                        IF reports[k].kind = "failed" THEN entry.title
                        ELSE EntryTitle(entry)
                  /\ reports[k].kind = "added" =>
                        \E p \in 1..Len(store) : store[p].title = EntryTitle(entry)

C22_Witness ==
    /\ npc = "returned"
    /\ calls = 1
    /\ Len(nEntries) = 2
    /\ nEntries[1].title = TitleX
    /\ nEntries[2].title = TitleY
    /\ store # <<>>
    /\ [k \in 1..Len(EntryReports) |-> EntryReports[k].kind] = <<"failed", "added">>
    /\ store[Len(store)].title = TitleY

-----------------------------------------------------------------------------
(* C23 *)

\* C23: no step changes the description of a record that is in the store.
C23_DescriptionOnlyOnCreate ==
    [][\A k \in 1..Len(store) : store'[k].description = store[k].description]_vars

\* an existing record was updated from an entry that has a description
C23_Witness ==
    /\ mainVariant = "js"
    /\ calls = 1
    /\ Len(nEntries) = 1
    /\ nEntries[1].description = TextD
    /\ Len(store) = 1
    /\ EntryReports = <<LogLine("updated", TitleX, <<>>)>>
    /\ store[1].link = LinkU
    /\ store[1].description = OldText

-----------------------------------------------------------------------------
(* C24 *)

\* the argument a fetch was made for
ArgOf(f) == args[f.arg]

\* title, source and yearMonth the entries of the document of fetch f must carry
ExpectedTags(f) ==
    LET found == parseWuSection("current", SplitNl(ContentOf(f.url)))
    IN  [k \in 1..Len(found) |->
            <<found[k].title, f.url, IF IsUrlArg(ArgOf(f)) THEN Null ELSE ArgOf(f)>>]

RECURSIVE ExpectedMerged(_)
ExpectedMerged(fs) ==
    IF fs = <<>> THEN <<>>
    ELSE ExpectedMerged(SubSeq(fs, 1, Len(fs) - 1)) \o
         (IF fs[Len(fs)].kind = "doc" /\ fs[Len(fs)].ok
          THEN ExpectedTags(fs[Len(fs)]) ELSE <<>>)

\* C24: the objects the scanner returns have no source and no yearMonth;
\* once the arguments are done, every merged entry carries as source the URL
\* of the document it was parsed from, and as yearMonth the argument when
\* that document came from a file list, nothing when it was an argument.
C24_SourceAndYearMonth ==
    /\ \A k \in 1..Len(heap) : DOMAIN heap[k] \cap {"source", "yearMonth"} = {}
    /\ PastArgs =>
          [k \in 1..Len(allEntries) |->
              <<allEntries[k].title, allEntries[k].source, allEntries[k].yearMonth>>]
              = ExpectedMerged(fetches)

C24_Witness ==
    /\ mainVariant = "js"
    /\ mpc = "upsert"
    /\ args = <<ArgYM, UrlA>>
    /\ Len(allEntries) = 2
    /\ allEntries[1].source = UrlF
    /\ allEntries[1].yearMonth = ArgYM
    /\ allEntries[2].source = UrlA
    /\ allEntries[2].yearMonth = Null

-----------------------------------------------------------------------------
(* C25: two scanner calls interleaved *)

MaxTwoLines == 2

TwoLines == {LMarker, LHeading, LBullet, LText}

TwoDocs == UNION {[1..n -> TwoLines] : n \in 1..MaxTwoLines}

\* a second call whose currentEntry is the variable of the first call
OtherLocals_SharedEntry ==
    [inWuSection |-> other.inWuSection, currentEntry |-> currentEntry,
     entryLines |-> other.entryLines, entries |-> other.entries,
     heap |-> heap, brk |-> FALSE]

\* const entries = []; let inWuSection, currentEntry, entryLines: every call
\* of parseWuSection has its own; the objects of both live on one heap
OtherLocals ==
    [inWuSection |-> other.inWuSection, currentEntry |-> other.currentEntry,
     entryLines |-> other.entryLines, entries |-> other.entries,
     heap |-> heap, brk |-> FALSE]

SetOther(st, k, p) ==
    /\ other' = [other EXCEPT !.inWuSection = st.inWuSection,
                              !.currentEntry = st.currentEntry,
                              !.entryLines = st.entryLines,
                              !.entries = st.entries,
                              !.i = k,
                              !.pc = p]
    /\ heap' = st.heap

InitTwo ==
    /\ variant = "current"
    /\ doc \in TwoDocs
    /\ i = 1
    /\ inWuSection = InitScan.inWuSection
    /\ currentEntry = InitScan.currentEntry
    /\ entryLines = InitScan.entryLines
    /\ entries = InitScan.entries
    /\ heap = InitScan.heap
    /\ pc = "loop"
    /\ other \in {[NoOther EXCEPT !.doc = d, !.pc = "loop"] : d \in TwoDocs}
    /\ FnIdle
    /\ MainIdle
    /\ NotionIdle

\* one iteration of the for loop of the second call
ScanOther ==
    /\ other.pc = "loop"
    /\ other.i <= Len(other.doc)
    /\ LET st == ScanLine(variant, OtherLocals, other.doc[other.i])
       IN  SetOther(st,
                    IF st.brk THEN other.i ELSE other.i + 1,
                    IF st.brk \/ other.i + 1 > Len(other.doc)
                    THEN "save" ELSE "loop")
    /\ UNCHANGED <<variant, doc, i, inWuSection, currentEntry, entryLines,
                   entries, pc, fnVars, mainVars, notionVars>>

\* if (currentEntry) { ... } return entries, in the second call
ReturnOther ==
    /\ other.pc = "save"
    /\ SetOther(SaveLast(OtherLocals), other.i, "done")
    /\ UNCHANGED <<variant, doc, i, inWuSection, currentEntry, entryLines,
                   entries, pc, fnVars, mainVars, notionVars>>

NextTwo == Scan \/ Return \/ ScanOther \/ ReturnOther

SpecTwo == InitTwo /\ [][NextTwo]_vars

\* what a call sees of its locals: the objects behind the references
Seen(st) ==
    [inWuSection |-> st.inWuSection,
     currentEntry |-> IF st.currentEntry = 0 THEN Null
                      ELSE st.heap[st.currentEntry],
     entryLines |-> st.entryLines,
     entries |-> [k \in 1..Len(st.entries) |-> st.heap[st.entries[k]]]]

\* the locals of a call on d that runs alone and stands at line k in state p
Alone(d, k, p) ==
    IF p = "loop" THEN ScanPrefix(variant, d, k - 1)
    ELSE IF p = "save" THEN ScanPrefix(variant, d, Len(d))
    ELSE SaveLast(ScanPrefix(variant, d, Len(d)))

ResultOther == [k \in 1..Len(other.entries) |-> heap[other.entries[k]]]

\* C25: of two scanner calls interleaved line by line on independent
\* documents, each sees at every step the locals and objects it sees when
\* it runs alone, and each returns what it returns when it runs alone.
C25_Reentrant ==
    other.pc # "idle" =>
        /\ Seen(Locals) = Seen(Alone(doc, i, pc))
        /\ Seen(OtherLocals) = Seen(Alone(other.doc, other.i, other.pc))
        /\ pc = "done" => Result = parseWuSection(variant, doc)
        /\ other.pc = "done" => ResultOther = parseWuSection(variant, other.doc)

C25_Witness ==
    /\ pc = "done"
    /\ other.pc = "done"
    /\ doc # other.doc
    /\ Len(entries) = 1
    /\ Len(other.entries) = 1
    /\ other.entries[1] < entries[1]
    /\ Result[1].description # <<>>
    /\ ResultOther[1].description = <<>>

-----------------------------------------------------------------------------
(* C26 *)

\* the URLs of the documents fetched so far for the argument at position a
DocUrlsOf(a) ==
    LET fs == SelectSeq(fetches, LAMBDA f : f.kind = "doc" /\ f.arg = a)
    IN  [k \in 1..Len(fs) |-> fs[k].url]

\* C26: in the run of the repository script nothing is deduplicated while
\* arguments or documents are still being fetched or parsed; documents are
\* fetched in argument order and, within a year-month argument, in file-list
\* order; the deduplicator runs over the merged entries of all of them in
\* that order, keeps of each title the earliest one, and only the kept
\* entries are handed to the upsert.
C26_DedupAfterAllDocuments ==
    mainVariant = "repo" =>
        /\ ~PastArgs => (seenTitles = {} /\ uniqueEntries = <<>> /\ dedupIdx = 1)
        /\ PastArgs =>
              /\ argIdx > Len(args)
              /\ pc = "idle"
              /\ [k \in 1..Len(allEntries) |->
                     <<allEntries[k].title, allEntries[k].source>>]
                     = FetchedEntries(fetches)
        /\ \A a \in 1..Len(fetches) : \A b \in (a + 1)..Len(fetches) :
              fetches[a].arg <= fetches[b].arg
        /\ (mpc = "files" \/ (mpc = "parse" /\ ~IsUrlArg(args[argIdx]))) =>
              DocUrlsOf(argIdx)
                  = SubSeq(urls, 1, IF mpc = "files" THEN urlIdx - 1 ELSE urlIdx)
        /\ (mpc = "parse" /\ IsUrlArg(args[argIdx])) =>
              DocUrlsOf(argIdx) = <<args[argIdx]>>
        /\ mpc = "dedup" =>
              uniqueEntries = AtPositions(SubSeq(allEntries, 1, dedupIdx - 1),
                                          FirstOfTitle, 1)
        /\ mpc \in {"output", "printed", "upsert"} =>
              uniqueEntries = AtPositions(allEntries, FirstOfTitle, 1)
        /\ mpc = "upsert" => nEntries = AtPositions(allEntries, FirstOfTitle, 1)

C26_Witness ==
    /\ mainVariant = "repo"
    /\ mpc = "upsert"
    /\ args = <<ArgYM, UrlB>>
    /\ Len(allEntries) = 4
    /\ [k \in 1..Len(nEntries) |-> nEntries[k].source] = <<UrlF, UrlG, UrlB>>

-----------------------------------------------------------------------------
(* C27 *)

\* the locals when the loop has read the whole document
AtEnd == ScanPrefix(variant, doc, Len(doc))

\* an entry is open at the end of the document and no heading left the section
OpenAtEnd == ~AtEnd.brk /\ AtEnd.currentEntry # 0

\* C27: an entry still open at the end of the document, the section never
\* left, is finalized with description = its buffered lines joined by single
\* spaces, trimmed, and is in the returned sequence exactly once, as its last
\* element.
C27_LastEntrySavedOnce ==
    (Returned /\ OpenAtEnd) =>
        /\ entries # <<>>
        /\ entries[Len(entries)] = AtEnd.currentEntry
        /\ heap[AtEnd.currentEntry].description = JoinTrim(AtEnd.entryLines)
        /\ Count(entries, AtEnd.currentEntry) = 1

\* no line that looks like an opener and is none was read while an entry was open
NoAnomalyRead ==
    \A k \in 1..Len(doc) : ~(ReadWhileOpen(k) /\ IsAnomaly(Trim(doc[k])))

C27_WithoutAnomaly == NoAnomalyRead => C27_LastEntrySavedOnce

-----------------------------------------------------------------------------
(* The scanner on documents with continuation text and skipped lines *)

TextLines == {LMarker, LOther, LHeading, LBullet, LText, LBadBullet, LEmpty,
              LShortcode, LImage, LSeparator, LArrow}

TextDocs == UNION {[1..n -> TextLines] : n \in 1..MaxLines}

InitText ==
    /\ variant \in Variants
    /\ doc \in TextDocs
    /\ i = 1
    /\ inWuSection = InitScan.inWuSection
    /\ currentEntry = InitScan.currentEntry
    /\ entryLines = InitScan.entryLines
    /\ entries = InitScan.entries
    /\ heap = InitScan.heap
    /\ pc = "loop"
    /\ other = NoOther
    /\ FnIdle
    /\ MainIdle
    /\ NotionIdle

SpecText == InitText /\ [][Next]_vars

-----------------------------------------------------------------------------
(* C28 *)

\* the excluded marker types: a shortcode opener or an image marker at the
\* start of the line, or a line that is the separator token
ExcludedMarker(t) ==
    \/ StartsWith(t, <<"{", "{">>)
    \/ StartsWith(t, <<"!", "[">>)
    \/ t = LSeparator

\* line k is read while an entry is open, is not empty, matches neither
\* opener form and is no excluded marker
TextLine(k) ==
    /\ ReadWhileOpen(k)
    /\ Trim(doc[k]) # <<>>
    /\ ~HeadingMatch(Trim(doc[k])).ok
    /\ ~BulletMatch(Trim(doc[k])).ok
    /\ ~ExcludedMarker(Trim(doc[k]))

RECURSIVE TextFrom(_)
\* the text lines from line j on that belong to the entry open at j: up to
\* the next opener or the heading that ends the section
TextFrom(j) ==
    IF j > Len(doc) THEN <<>>
    ELSE LET t == Trim(doc[j])
         IN  IF IsMarker(t) THEN TextFrom(j + 1)
             ELSE IF IsOtherH2(t) \/ HeadingMatch(t).ok \/ BulletMatch(t).ok
             THEN <<>>
             ELSE IF t # <<>> /\ ~ExcludedMarker(t)
             THEN <<t>> \o TextFrom(j + 1)
             ELSE TextFrom(j + 1)

\* the trailing text of the bullet line at k, if any
Trailing(k) ==
    LET t == Trim(doc[k])
    IN  IF HeadingMatch(t).ok \/ Trim(BulletMatch(t).g4) = <<>> THEN <<>>
        ELSE <<Trim(BulletMatch(t).g4)>>

\* C28: a non-empty line read while an entry is open that matches neither
\* opener form and is no excluded marker is appended, trimmed, to the buffer
\* of that entry, which stays open; the description of every entry is the
\* trailing text of its bullet line (if any) followed by those lines in
\* document order, joined by single spaces and trimmed, and is empty when
\* there is no such text.
C28_DescriptionIsBufferedText ==
    Returned =>
        \A k \in 1..Len(doc) :
            /\ TextLine(k) =>
                  LET before == Before(k)
                      after == ScanLine(variant, before, doc[k])
                  IN  /\ after.currentEntry = before.currentEntry
                      /\ after.entryLines = Append(before.entryLines, Trim(doc[k]))
            /\ OpenerAt(k) =>
                  OpenedAt(k).description = JoinTrim(Trailing(k) \o TextFrom(k + 1))

\* no line of the document starts like the separator and goes on as text
NoArrowText ==
    \A k \in 1..Len(doc) :
        StartsWith(Trim(doc[k]), <<"<", "-", "-", "-">>) => Trim(doc[k]) = LSeparator

C28_WithoutArrowText == NoArrowText => C28_DescriptionIsBufferedText

-----------------------------------------------------------------------------
(* C29 *)

\* the line about to be read is an excluded marker and an entry is open
ExcludedWhileOpen ==
    /\ pc = "loop"
    /\ i <= Len(doc)
    /\ inWuSection
    /\ currentEntry # 0
    /\ ExcludedMarker(Trim(doc[i]))

\* C29: a line read while an entry is open that starts with the shortcode
\* opener, starts with the image marker or is the separator token is
\* skipped: the entry stays open, and the buffer, the entry objects and the
\* result sequence are as they were.
C29_ExcludedLineSkipped ==
    [][ExcludedWhileOpen =>
          /\ currentEntry' = currentEntry
          /\ entryLines' = entryLines
          /\ entries' = entries
          /\ heap' = heap
          /\ inWuSection' = inWuSection]_vars

C29_Witness ==
    /\ Returned
    /\ doc = <<LMarker, LBullet, LImage, LSeparator>>
    /\ Len(Result) = 1
    /\ Result[1].description = <<"d">>

-----------------------------------------------------------------------------
(* C30 *)

\* the line about to be read is a heading-form opener
HeadingAboutToOpen ==
    /\ pc = "loop"
    /\ i <= Len(doc)
    /\ inWuSection
    /\ ~IsMarker(Trim(doc[i]))
    /\ ~IsOtherH2(Trim(doc[i]))
    /\ HeadingMatch(Trim(doc[i])).ok

\* line k is a heading-form opener read inside the section
HeadingOpenerAt(k) == OpenerAt(k) /\ HeadingMatch(Trim(doc[k])).ok

\* C30: a heading-form opener line opens its entry with an empty buffer and
\* an empty description, whatever follows the [TITLE](URL) part on the line;
\* a heading entry that no continuation line follows is returned with the
\* empty description.
C30_HeadingTrailingTextIgnored ==
    /\ [][HeadingAboutToOpen =>
            /\ currentEntry' = Len(heap')
            /\ Len(heap') = Len(heap) + 1
            /\ entryLines' = <<>>
            /\ heap'[currentEntry'].description = <<>>]_vars
    /\ [](Returned =>
            \A k \in 1..Len(doc) :
                (HeadingOpenerAt(k) /\ TextFrom(k + 1) = <<>>) =>
                    OpenedAt(k).description = <<>>)

C30_Witness ==
    /\ Returned
    /\ doc = <<LMarker, LHeading, LEmpty, LOther>>
    /\ Len(Result) >= 1
    /\ Result[1].title = <<"A">>
    /\ Result[1].description = <<>>

-----------------------------------------------------------------------------
(* C31 *)

\* the documented priority order of the glyphs, best first
Priority == <<G5, G4, G3, G2, G1>>

\* the glyphs that occur in s
GlyphsIn(s) == {k \in 1..Len(Priority) : Includes(s, Priority[k])}

\* C31: for a title with two or more different rating glyphs extractRating
\* returns the rating of the glyph that stands first in the priority order
\* (5 for the first glyph of the order down to 1 for the last), wherever the
\* glyphs stand in the title.
C31_PriorityOrderWins ==
    (fpc = "returned" /\ Cardinality(GlyphsIn(fnArg)) >= 2) =>
        fnRet = 6 - MinOf(GlyphsIn(fnArg))

C31_Witness ==
    /\ fpc = "returned"
    /\ fnArg = <<G1, G3, G5>>
    /\ fnRet = 5

-----------------------------------------------------------------------------
(* C32 *)

\* the line about to be read starts with the section marker and the scanner
\* is inside the section
MarkerInsideSection ==
    /\ pc = "loop"
    /\ i <= Len(doc)
    /\ inWuSection
    /\ IsMarker(Trim(doc[i]))

\* line k starts with the section marker and is read inside the section
MarkerReadInside(k) ==
    /\ k \in 1..Len(doc)
    /\ ~Before(k).brk
    /\ Before(k).inWuSection
    /\ IsMarker(Trim(doc[k]))

\* the document d without its line k
Without(d, k) == SubSeq(d, 1, k - 1) \o SubSeq(d, k + 1, Len(d))

\* C32: a line that starts with the section marker, read inside the section,
\* is consumed without effect: the open entry stays open, nothing is added
\* to its buffer or to the result, the section goes on and the loop moves to
\* the next line; the scanner returns what it returns for the document
\* without that line, so text after it still goes to the entry opened
\* before it.
C32_MarkerInsideSectionIgnored ==
    /\ [][MarkerInsideSection =>
            /\ inWuSection'
            /\ currentEntry' = currentEntry
            /\ entryLines' = entryLines
            /\ entries' = entries
            /\ heap' = heap
            /\ i' = i + 1]_vars
    /\ [](Returned =>
            \A k \in 1..Len(doc) :
                MarkerReadInside(k) =>
                    Result = parseWuSection(variant, Without(doc, k)))

C32_Witness ==
    /\ Returned
    /\ doc = <<LMarker, LBullet, LMarker, LText>>
    /\ Len(Result) = 1
    /\ Result[1].description = <<"d", " ", "m">>

-----------------------------------------------------------------------------
(* C33 *)

\* the line about to be read comes before the section marker and is not it
BeforeSection ==
    /\ pc = "loop"
    /\ i <= Len(doc)
    /\ ~inWuSection
    /\ ~IsMarker(Trim(doc[i]))

\* the lines that start with the section marker
MarkerLines == {k \in 1..Len(doc) : IsMarker(Trim(doc[k]))}

\* the document from its first marker line on
FromMarker == SubSeq(doc, MinOf(MarkerLines), Len(doc))

\* a second-level heading or an opener-shaped line stands before the marker
SkippedBeforeMarker ==
    /\ MarkerLines # {}
    /\ \E k \in 1..(MinOf(MarkerLines) - 1) : IsOtherH2(Trim(doc[k]))
    /\ \E k \in 1..(MinOf(MarkerLines) - 1) :
           HeadingMatch(Trim(doc[k])).ok \/ BulletMatch(Trim(doc[k])).ok

\* C33: a line read before the section marker has been seen changes nothing
\* and does not stop the loop, whether it is another second-level heading,
\* an opener-shaped line or anything else; the scanner returns what it
\* returns for the document that starts at the first marker line.
C33_NothingBeforeMarker ==
    /\ [][BeforeSection =>
            /\ ~inWuSection'
            /\ currentEntry' = currentEntry
            /\ entryLines' = entryLines
            /\ entries' = entries
            /\ heap' = heap
            /\ i' = i + 1]_vars
    /\ []((Returned /\ MarkerLines # {}) =>
            Result = parseWuSection(variant, FromMarker))

C33_Witness ==
    /\ Returned
    /\ doc = <<LOther, LHeading, LMarker, LBullet>>
    /\ SkippedBeforeMarker
    /\ Len(Result) = 1
    /\ Result[1].title = <<"B">>
    /\ Result[1].description = <<"d">>

====
